---- MODULE Spec2Model ----
(***************************************************************************)
(* A model of goastdb's indexing pipeline (package astdb): the scanner's   *)
(* file metadata, the FNV-1a fingerprint and file id, the AST linearizer,  *)
(* the parser worker pool, the DB state inspector, the reuse decision and  *)
(* the Run entry point.                                                    *)
(*                                                                         *)
(* Go strings are modelled as sequences of byte values (0..255); 64-bit    *)
(* words are sequences of eight bytes, least significant first, so that    *)
(* the hash arithmetic keeps its width.                                    *)
(***************************************************************************)
EXTENDS Integers, Sequences, FiniteSets, TLC

(***************************************************************************)
(* Bytes, strings and 64-bit words                                         *)
(***************************************************************************)

\* "" (the zero value of a Go string)
EmptyString == <<>>

\* the elements of a sequence
Range(seq) == {seq[k] : k \in 1..Len(seq)}

\* s < t for Go strings: bytewise lexicographic order
RECURSIVE StrLess(_, _)
StrLess(s, t) ==
    IF t = <<>> THEN FALSE
    ELSE IF s = <<>> THEN TRUE
    ELSE IF Head(s) # Head(t) THEN Head(s) < Head(t)
    ELSE StrLess(Tail(s), Tail(t))

\* a ^ b on n-bit values
RECURSIVE XorBits(_, _, _)
XorBits(a, b, n) ==
    IF n = 0 THEN 0
    ELSE (((a % 2) + (b % 2)) % 2) + 2 * XorBits(a \div 2, b \div 2, n - 1)

\* hash/fnv: offset64 = 14695981039346656037 = 0xcbf29ce484222325
fnvOffset64 == <<37, 35, 34, 132, 228, 156, 242, 203>>

\* hash/fnv: prime64 = 1099511628211 = 2^40 + 435; the low part of the prime
fnvPrimeLow == 435

\* hash/fnv: prime64's high part is one bit, 2^40: a shift by five bytes
fnvPrimeShift == 5

\* limb i of h * prime64 before carries
MulTerm(h, i) ==
    h[i] * fnvPrimeLow + (IF i > fnvPrimeShift THEN h[i - fnvPrimeShift] ELSE 0)

\* h * prime64 modulo 2^64, limb by limb with the carries
MulPrime64(h) ==
    LET t1 == MulTerm(h, 1)
        t2 == MulTerm(h, 2) + (t1 \div 256)
        t3 == MulTerm(h, 3) + (t2 \div 256)
        t4 == MulTerm(h, 4) + (t3 \div 256)
        t5 == MulTerm(h, 5) + (t4 \div 256)
        t6 == MulTerm(h, 6) + (t5 \div 256)
        t7 == MulTerm(h, 7) + (t6 \div 256)
        t8 == MulTerm(h, 8) + (t7 \div 256)
    IN  <<t1 % 256, t2 % 256, t3 % 256, t4 % 256,
          t5 % 256, t6 % 256, t7 % 256, t8 % 256>>

\* one step of (*sum64a).Write: hash ^= byte; hash *= prime64
fnvStep(h, c) ==
    MulPrime64(<<XorBits(h[1], c, 8), h[2], h[3], h[4], h[5], h[6], h[7], h[8]>>)

\* a 64-bit word: eight limbs
IsWord64(h) == Len(h) = 8

\* (*sum64a).Write(data) on the running hash h, byte by byte (the hash after
\* each byte is computed before the next byte is taken)
RECURSIVE fnvWrite(_, _)
fnvWrite(h, data) ==
    IF data = <<>> THEN h
    ELSE LET next == fnvStep(h, Head(data))
         IN  IF IsWord64(next) THEN fnvWrite(next, Tail(data)) ELSE next

\* the decimal digits of n >= 0, as ASCII
RECURSIVE FormatUint(_)
FormatUint(n) ==
    IF n < 10 THEN <<48 + n>> ELSE FormatUint(n \div 10) \o <<48 + (n % 10)>>

\* strconv.FormatInt(n, 10)
FormatInt(n) ==
    IF n < 0 THEN <<45>> \o FormatUint(0 - n) ELSE FormatUint(n)

\* the nibbles of the bytes h[1..i], most significant first
RECURSIVE NibblesTo(_, _)
NibblesTo(h, i) ==
    IF i = 0 THEN <<>>
    ELSE <<h[i] \div 16, h[i] % 16>> \o NibblesTo(h, i - 1)

\* a hex digit 0..15 as its lowercase ASCII character
HexDigit(d) == IF d < 10 THEN 48 + d ELSE 87 + d

\* the hex digits of a nibble list, leading zeros dropped (one digit at least)
RECURSIVE HexDigits(_, _)
HexDigits(ns, leading) ==
    IF ns = <<>> THEN <<>>
    ELSE IF leading /\ Head(ns) = 0 /\ Len(ns) > 1 THEN HexDigits(Tail(ns), TRUE)
    ELSE <<HexDigit(Head(ns))>> \o HexDigits(Tail(ns), FALSE)

\* fmt.Sprintf("%x", h): lowercase hex without leading zeros
FormatHex(h) == HexDigits(NibblesTo(h, 8), TRUE)

\* a < b for non-negative int64 values held as eight bytes
RECURSIVE WordLessFrom(_, _, _)
WordLessFrom(a, b, i) ==
    IF i = 0 THEN FALSE
    ELSE IF a[i] # b[i] THEN a[i] < b[i]
    ELSE WordLessFrom(a, b, i - 1)

Int64Less(a, b) == WordLessFrom(a, b, 8)

(***************************************************************************)
(* Scanner output, fingerprint and file id                                 *)
(***************************************************************************)

\* relative paths, forward-slash normalized: "a.go", "a/b.go", "b.go"
PathA == <<97, 46, 103, 111>>
PathAB == <<97, 47, 98, 46, 103, 111>>
PathB == <<98, 46, 103, 111>>

\* type fileMeta struct { RelPath; Size; ModUnixNano }
fileMeta(path, size, mod) ==
    [RelPath |-> path, Size |-> size, ModUnixNano |-> mod]

\* the bytes sourceFingerprint writes for one file
fingerprintRecordNoSeparators(f) ==
    f.RelPath \o FormatInt(f.Size) \o FormatInt(f.ModUnixNano)

fingerprintRecord(f) ==
    f.RelPath \o <<0>> \o FormatInt(f.Size) \o <<0>>
        \o FormatInt(f.ModUnixNano) \o <<0>>

\* every file's record, in list order
RECURSIVE fingerprintBytes(_)
fingerprintBytes(files) ==
    IF files = <<>> THEN <<>>
    ELSE fingerprintRecord(Head(files)) \o fingerprintBytes(Tail(files))

\* func sourceFingerprint(files []fileMeta) string
sourceFingerprint(files) ==
    FormatHex(fnvWrite(fnvOffset64, fingerprintBytes(files)))

\* h.Sum64() & 0x7fffffffffffffff
ClearSignBit(h) == <<h[1], h[2], h[3], h[4], h[5], h[6], h[7], h[8] % 128>>

\* fileIDForPath without the mask: int64(h.Sum64())
fileIDForPathUnmasked(path) == fnvWrite(fnvOffset64, path)

\* func fileIDForPath(path string) int64
fileIDForPath(path) == ClearSignBit(fnvWrite(fnvOffset64, path))

(***************************************************************************)
(* AST linearizer                                                          *)
(***************************************************************************)

\* an ast.Node: its kind label (fmt.Sprintf("%T", n)), the text that
\* extractNodeText reads from it (Ident.Name, BasicLit.Value,
\* ImportSpec.Path.Value) and its children in source order
astNode(kind, text, children) ==
    [Kind |-> kind, Text |-> text, Children |-> children]

\* the nil node ast.Inspect passes to the callback after a node's children
NilNode == astNode("<nil>", "", <<>>)

\* the calls ast.Inspect makes when the callback always returns true:
\* f(n), then the calls for each child in order, then f(nil)
RECURSIVE InspectCalls(_)
RECURSIVE InspectChildren(_)
InspectCalls(n) == <<n>> \o InspectChildren(n.Children) \o <<NilNode>>
InspectChildren(cs) ==
    IF cs = <<>> THEN <<>>
    ELSE InspectCalls(Head(cs)) \o InspectChildren(Tail(cs))

\* func extractNodeText(n ast.Node) string
extractNodeText(n) ==
    IF n.Kind \in {"*ast.Ident", "*ast.BasicLit", "*ast.ImportSpec"}
    THEN n.Text ELSE ""

\* type nodeRow struct (the source positions Pos..EndOffset are left out)
nodeRow(fileID, ord, parentOrd, hasParent, n) ==
    [FileID |-> fileID, Ordinal |-> ord, ParentOrdinal |-> parentOrd,
     HasParent |-> hasParent, Kind |-> n.Kind, NodeText |-> extractNodeText(n)]

\* walkNodes: rows, stack and ord before the first callback
walkStart == [rows |-> <<>>, stack |-> <<>>, ord |-> 0]

\* the callback leaving the stack as it is when ast.Inspect passes nil
walkCallbackNeverPops(w, fileID, n) ==
    IF n = NilNode
    THEN w
    ELSE LET ord == w.ord + 1
             hasParent == Len(w.stack) > 0
             parentOrd == IF hasParent THEN w.stack[Len(w.stack)] ELSE 0
         IN  [rows |-> Append(w.rows, nodeRow(fileID, ord, parentOrd, hasParent, n)),
              stack |-> Append(w.stack, ord),
              ord |-> ord]

\* the callback with ord incremented after the row is appended
walkCallbackOrdAfter(w, fileID, n) ==
    IF n = NilNode
    THEN IF Len(w.stack) > 0
         THEN [w EXCEPT !.stack = SubSeq(w.stack, 1, Len(w.stack) - 1)]
         ELSE w
    ELSE LET hasParent == Len(w.stack) > 0
             parentOrd == IF hasParent THEN w.stack[Len(w.stack)] ELSE 0
         IN  [rows |-> Append(w.rows, nodeRow(fileID, w.ord, parentOrd, hasParent, n)),
              stack |-> Append(w.stack, w.ord),
              ord |-> w.ord + 1]

\* walkNodes: the callback given to ast.Inspect, on walker state w
walkCallback(w, fileID, n) ==
    IF n = NilNode
    THEN IF Len(w.stack) > 0
         THEN [w EXCEPT !.stack = SubSeq(w.stack, 1, Len(w.stack) - 1)]
         ELSE w
    ELSE LET ord == w.ord + 1
             hasParent == Len(w.stack) > 0
             parentOrd == IF hasParent THEN w.stack[Len(w.stack)] ELSE 0
         IN  [rows |-> Append(w.rows, nodeRow(fileID, ord, parentOrd, hasParent, n)),
              stack |-> Append(w.stack, ord),
              ord |-> ord]

\* the walker state after the given calls
RECURSIVE walkRun(_, _, _)
walkRun(w, fileID, calls) ==
    IF calls = <<>> THEN w
    ELSE walkRun(walkCallback(w, fileID, Head(calls)), fileID, Tail(calls))

\* func walkNodes(fset, fileID, file) []nodeRow
walkNodes(fileID, file) == walkRun(walkStart, fileID, InspectCalls(file)).rows

\* the number of nodes of an AST
RECURSIVE NodeCount(_)
RECURSIVE ForestCount(_)
NodeCount(n) == 1 + ForestCount(n.Children)
ForestCount(cs) ==
    IF cs = <<>> THEN 0 ELSE NodeCount(Head(cs)) + ForestCount(Tail(cs))

(***************************************************************************)
(* Source files on disk, the Go parser, parseFile                          *)
(***************************************************************************)

AllPaths == {PathA, PathAB, PathB}

\* a file of the working copy: what stat reports (Size, ModUnixNano), whether
\* os.ReadFile succeeds, and which source text it holds
diskFile(size, mod, readable, src) ==
    [Exists |-> TRUE, Size |-> size, ModUnixNano |-> mod,
     Readable |-> readable, Src |-> src]

NoFile ==
    [Exists |-> FALSE, Size |-> 0, ModUnixNano |-> 0, Readable |-> FALSE, Src |-> "none"]

\* parser.ParseFile on bytes that were read: the file is never nil (a source
\* with syntax errors gives a partial AST and an error), Name is never nil
\*   "main":   package main; func main() {}
\*   "pkg":    package p
\*   "broken": package p; func        (a syntax error, partial tree)
ParseFile(src) ==
    CASE src = "main" ->
           [File |-> astNode("*ast.File", "", <<
                        astNode("*ast.Ident", "main", <<>>),
                        astNode("*ast.FuncDecl", "", <<
                            astNode("*ast.Ident", "main", <<>>),
                            astNode("*ast.FuncType", "", <<
                                astNode("*ast.FieldList", "", <<>>) >>),
                            astNode("*ast.BlockStmt", "", <<>>) >>) >>),
            Name |-> "main", Err |-> ""]
      [] src = "pkg" ->
           [File |-> astNode("*ast.File", "", <<
                        astNode("*ast.Ident", "p", <<>>) >>),
            Name |-> "p", Err |-> ""]
      [] OTHER ->
           [File |-> astNode("*ast.File", "", <<
                        astNode("*ast.Ident", "p", <<>>),
                        astNode("*ast.BadDecl", "", <<>>) >>),
            Name |-> "p", Err |-> "expected 'IDENT', found 'EOF'"]

\* type fileRow struct { ID; Path; PkgName; ParseError; Bytes }
fileRow(id, path, pkg, err, bytes) ==
    [ID |-> id, Path |-> path, PkgName |-> pkg, ParseError |-> err, Bytes |-> bytes]

\* func parseFile(repoRoot string, meta fileMeta) parseResult, on disk state fs
parseFile(fs, meta) ==
    LET fileID == fileIDForPath(meta.RelPath)
        f == fs[meta.RelPath]
    IN  IF ~(f.Exists /\ f.Readable)
        THEN [File |-> fileRow(fileID, meta.RelPath, "", "open: permission denied", 0),
              Rows |-> <<>>]
        ELSE LET parsed == ParseFile(f.Src)
                 row == fileRow(fileID, meta.RelPath,
                                IF parsed.File # NilNode THEN parsed.Name ELSE "",
                                parsed.Err, f.Size)
             IN  IF parsed.File = NilNode
                 THEN [File |-> row, Rows |-> <<>>]
                 ELSE [File |-> row, Rows |-> walkNodes(fileID, parsed.File)]

\* the paths of a set, ascending
RECURSIVE SortedPaths(_)
SortedPaths(ps) ==
    IF ps = {} THEN <<>>
    ELSE LET least == CHOOSE p \in ps : \A q \in ps \ {p} : StrLess(p, q)
         IN  <<least>> \o SortedPaths(ps \ {least})

\* func collectGoFiles(repoRoot, subdir string, maxFiles int): the .go files
\* found, sorted by RelPath, the first maxFiles of them when maxFiles > 0
collectGoFiles(fs, maxFiles) ==
    LET found == SortedPaths({p \in DOMAIN fs : fs[p].Exists})
        files == [k \in 1..Len(found) |->
                     fileMeta(found[k], fs[found[k]].Size, fs[found[k]].ModUnixNano)]
    IN  IF maxFiles > 0 /\ Len(files) > maxFiles
        THEN SubSeq(files, 1, maxFiles) ELSE files

\* parseFiles: sort.Slice(files, ...) left out
sortFilesNot(files) == files

\* parseFiles: sort.Slice(files, func(i, j) { files[i].Path < files[j].Path })
sortFiles(files) ==
    SortSeq(files, LAMBDA a, b : StrLess(a.Path, b.Path))

\* parseFiles: the nodes compared by Ordinal alone
sortNodesByOrdinal(nodes) ==
    SortSeq(nodes, LAMBDA a, b : a.Ordinal < b.Ordinal)

\* parseFiles: sort.Slice(nodes, ...) by FileID, then Ordinal
sortNodes(nodes) ==
    SortSeq(nodes, LAMBDA a, b :
        IF a.FileID = b.FileID THEN a.Ordinal < b.Ordinal
        ELSE Int64Less(a.FileID, b.FileID))

\* parseFiles: the collector setting parseErrors instead of incrementing it
collectResultFlag(acc, r) ==
    [files |-> Append(acc.files, r.File),
     nodes |-> acc.nodes \o r.Rows,
     parseErrors |-> IF r.File.ParseError # "" THEN 1 ELSE acc.parseErrors]

\* parseFiles: the collector's loop body for one result r
collectResult(acc, r) ==
    [files |-> Append(acc.files, r.File),
     nodes |-> acc.nodes \o r.Rows,
     parseErrors |-> IF r.File.ParseError # "" THEN acc.parseErrors + 1
                     ELSE acc.parseErrors]

collectStart == [files |-> <<>>, nodes |-> <<>>, parseErrors |-> 0]

\* parseFiles: what it returns once the out channel is drained
collectReturn(acc) ==
    [files |-> sortFiles(acc.files), nodes |-> sortNodes(acc.nodes),
     parseErrors |-> acc.parseErrors]

\* func parseFiles(repoRoot, metas, workers): the results collected in the
\* order of metas (the order of arrival does not change what is returned, see
\* the parser pool specification)
RECURSIVE collectAll(_, _, _)
collectAll(acc, fs, metas) ==
    IF metas = <<>> THEN acc
    ELSE collectAll(collectResult(acc, parseFile(fs, Head(metas))), fs, Tail(metas))

parseFiles(fs, metas) == collectReturn(collectAll(collectStart, fs, metas))

(***************************************************************************)
(* The DB file, the inspector, the writer, the reuse decision, Run         *)
(***************************************************************************)

\* const schemaVersion = "1"
schemaVersion == "1"

\* the tables createSchema creates, in the order of its statements
schemaTables == <<"files", "nodes", "run_meta", "governance_rules">>

\* the DB file at dbPath: whether it is there, the tables it holds, the rows
\* of files, nodes and governance_rules and the values of run_meta
NoDB ==
    [Exists |-> FALSE, Tables |-> {}, files |-> <<>>, nodes |-> <<>>,
     schema_version |-> "", source_fingerprint |-> EmptyString,
     governance_rules |-> <<>>]

\* a DB as a committed writeDatabase leaves it, written by a build whose
\* schemaVersion constant is version
builtDB(files, nodes, fingerprint, version) ==
    [Exists |-> TRUE, Tables |-> Range(schemaTables), files |-> files,
     nodes |-> nodes, schema_version |-> version, source_fingerprint |-> fingerprint,
     governance_rules |-> <<>>]

\* type dbState struct
dbState(exists, version, fingerprint, filesCount, nodesCount) ==
    [Exists |-> exists, SchemaVersion |-> version, SourceFingerprint |-> fingerprint,
     FilesCount |-> filesCount, NodesCount |-> nodesCount]

\* dbState{}
zeroState == dbState(FALSE, "", EmptyString, 0, 0)

\* inspectDuckDB returning dbState{} when a table cannot be read
inspectDuckDBZeroOnFailure(db, statFails) ==
    IF statFails THEN [state |-> zeroState, err |-> "stat db"]
    ELSE IF ~db.Exists THEN [state |-> zeroState, err |-> ""]
    ELSE IF ~({"files", "nodes", "run_meta"} \subseteq db.Tables)
    THEN [state |-> zeroState, err |-> ""]
    ELSE [state |-> dbState(TRUE, db.schema_version, db.source_fingerprint,
                            Len(db.files), Len(db.nodes)),
          err |-> ""]

\* func inspectDuckDB(path string) (dbState, error); statFails: os.Stat fails
\* with an error other than "not exist"
inspectDuckDB(db, statFails) ==
    IF statFails THEN [state |-> zeroState, err |-> "stat db"]
    ELSE IF ~db.Exists THEN [state |-> zeroState, err |-> ""]
    ELSE IF "files" \notin db.Tables
    THEN [state |-> dbState(TRUE, "", EmptyString, 0, 0), err |-> ""]
    ELSE IF "nodes" \notin db.Tables
    THEN [state |-> dbState(TRUE, "", EmptyString, Len(db.files), 0), err |-> ""]
    ELSE IF "run_meta" \notin db.Tables
    THEN [state |-> dbState(TRUE, "", EmptyString, Len(db.files), Len(db.nodes)),
          err |-> ""]
    ELSE [state |-> dbState(TRUE, db.schema_version, db.source_fingerprint,
                            Len(db.files), Len(db.nodes)),
          err |-> ""]

\* cleanupDuckDB leaving the DB file in place (removing the side files only)
cleanupDuckDBSideFilesOnly(db) == db

\* func cleanupDuckDB(path string): the DB file and its side files are removed
cleanupDuckDB(db) == NoDB

\* the points at which writeDatabase can fail: "open" sql.Open / db.Conn /
\* PRAGMA, "schema" the second statement of createSchema, "append" an
\* AppendRow, "closeFiles" and "closeNodes" the flush in the deferred Close of
\* the files and of the nodes appender, "meta" an upsert of writeMeta,
\* "commit" the COMMIT
WriteFaults ==
    {"open", "schema", "append", "closeFiles", "closeNodes", "meta", "commit"}

\* createSchema: the first n CREATE TABLE IF NOT EXISTS statements executed
createSchema(db, n) ==
    [db EXCEPT !.Tables = @ \cup {schemaTables[k] : k \in 1..n}]

\* func writeDatabase(ctx, path, files, nodes, fingerprint) error, on the DB
\* file old; fault = "cancel": ctx is done when writeDatabase is called, and
\* db.Conn(ctx) returns its error.  The statements before BEGIN take effect
\* one by one; an error after BEGIN is answered by ROLLBACK, which leaves the
\* file with its tables as they were at BEGIN; the error of a deferred
\* appender Close is dropped (_ = fa.Close(), _ = na.Close()) and the rows
\* it was to flush are not written
writeDatabase(old, files, nodes, fingerprint, fault) ==
    LET removed == cleanupDuckDB(old)
        opened == [removed EXCEPT !.Exists = TRUE]
        atBegin == createSchema(opened, Len(schemaTables))
        flushedFiles == IF fault = "closeFiles" THEN <<>> ELSE files
        flushedNodes == IF fault = "closeNodes" THEN <<>> ELSE nodes
        committed == [atBegin EXCEPT !.files = @ \o flushedFiles,
                                     !.nodes = @ \o flushedNodes,
                                     !.schema_version = schemaVersion,
                                     !.source_fingerprint = fingerprint]
    IN  CASE fault = "cancel" -> [db |-> removed, err |-> "open conn: context canceled"]
          [] fault = "open" -> [db |-> removed, err |-> "open duckdb"]
          [] fault = "schema" -> [db |-> createSchema(opened, 1), err |-> "create schema"]
          [] fault = "append" -> [db |-> atBegin, err |-> "append row"]
          [] fault = "meta" -> [db |-> atBegin, err |-> "upsert run_meta"]
          [] fault = "commit" -> [db |-> atBegin, err |-> "commit"]
          [] OTHER -> [db |-> committed, err |-> ""]

\* type Options struct: the fields the reuse decision and the clean-up read
Options(mode, reuse, force, keep) ==
    [Mode |-> mode, Reuse |-> reuse, ForceRebuild |-> force, KeepOutputFiles |-> keep]

\* Run: rebuild := ... with the negation of opts.Reuse dropped
needRebuildReuseInverted(opts, state, fingerprint) ==
    \/ opts.ForceRebuild
    \/ opts.Reuse
    \/ ~state.Exists
    \/ state.SchemaVersion # schemaVersion
    \/ state.SourceFingerprint # fingerprint

\* Run: rebuild := ... without the schema version test
needRebuildNoSchema(opts, state, fingerprint) ==
    \/ opts.ForceRebuild
    \/ ~opts.Reuse
    \/ ~state.Exists
    \/ state.SourceFingerprint # fingerprint

\* Run: rebuild := opts.ForceRebuild || !opts.Reuse || !state.Exists ||
\*      state.SchemaVersion != schemaVersion || state.SourceFingerprint != fingerprint
needRebuild(opts, state, fingerprint) ==
    \/ opts.ForceRebuild
    \/ ~opts.Reuse
    \/ ~state.Exists
    \/ state.SchemaVersion # schemaVersion
    \/ state.SourceFingerprint # fingerprint

\* Run: the reason chosen by an if / else-if chain (the first test that holds)
reasonFirstMatch(opts, state, fingerprint) ==
    IF opts.ForceRebuild THEN "force rebuild enabled"
    ELSE IF ~opts.Reuse THEN "reuse disabled"
    ELSE IF ~state.Exists THEN "database missing"
    ELSE IF state.SchemaVersion # schemaVersion THEN "schema changed"
    ELSE IF state.SourceFingerprint # EmptyString
            /\ state.SourceFingerprint # fingerprint THEN "source changed"
    ELSE "up-to-date"

\* Run: reason := "up-to-date", then five if statements in sequence, each
\* overwriting reason when its test holds
reasonFor(opts, state, fingerprint) ==
    LET r0 == "up-to-date"
        r1 == IF opts.ForceRebuild THEN "force rebuild enabled" ELSE r0
        r2 == IF ~opts.Reuse THEN "reuse disabled" ELSE r1
        r3 == IF ~state.Exists THEN "database missing" ELSE r2
        r4 == IF state.Exists /\ state.SchemaVersion # schemaVersion
              THEN "schema changed" ELSE r3
        r5 == IF state.Exists /\ state.SourceFingerprint # EmptyString
                 /\ state.SourceFingerprint # fingerprint
              THEN "source changed" ELSE r4
    IN  r5

\* type SyncStats struct (the elapsed times left out)
SyncStats(action, reason, changed, parseErrors, filesCount, nodesCount) ==
    [Action |-> action, Reason |-> reason, Changed |-> changed,
     ParseErrors |-> parseErrors, FilesCount |-> filesCount, NodesCount |-> nodesCount]

zeroSync == SyncStats("", "", 0, 0, 0, 0)

\* what one call of Run did: its options, what it scanned and inspected, what
\* it returned (err # "" for an error, else Sync), whether it called
\* parseFiles and writeDatabase, and the DB file it left
RunRecord(opts, scanFiles, fingerprint, state, rebuild, err, sync, parsed, wrote, db) ==
    [ran |-> TRUE, opts |-> opts, ScanFiles |-> scanFiles, fingerprint |-> fingerprint,
     state |-> state, rebuild |-> rebuild, err |-> err, Sync |-> sync,
     parsed |-> parsed, wrote |-> wrote, db |-> db]

\* no call of Run yet
NoRun ==
    [RunRecord(Options("", FALSE, FALSE, FALSE), 0, EmptyString, zeroState, FALSE,
               "", zeroSync, FALSE, FALSE, NoDB) EXCEPT !.ran = FALSE]

\* Run, up to fingerprint := sourceFingerprint(metas): the scan of the
\* working copy fs and its fingerprint
runScan(fs) ==
    LET metas == collectGoFiles(fs, 0)
    IN  [metas |-> metas, fingerprint |-> sourceFingerprint(metas)]

\* the clean-up at the end of Run done whatever opts.KeepOutputFiles says
cleanupAlways(opts, db) == cleanupDuckDB(db)

\* Run: if !opts.KeepOutputFiles { cleanupDuckDB(dbPath) }
cleanupUnlessKept(opts, db) ==
    IF ~opts.KeepOutputFiles THEN cleanupDuckDB(db) ELSE db

\* Run, from len(metas) == 0 to the branch on mode == "query" && !rebuild:
\* the call returns (an error, or the reuse result), or goes on to rebuild.
\* statFails: os.Stat in inspectDuckDB fails
runDecide(scan, db, opts, statFails) ==
    LET metas == scan.metas
        fingerprint == scan.fingerprint
        inspected == inspectDuckDB(db, statFails)
        state == inspected.state
        rebuild == needRebuild(opts, state, fingerprint)
        reason == reasonFor(opts, state, fingerprint)
        kept(d) == cleanupUnlessKept(opts, d)
        returns(rec) == [returns |-> TRUE, rec |-> rec, state |-> state,
                         rebuild |-> rebuild, reason |-> reason]
    IN  IF Len(metas) = 0
        THEN returns(RunRecord(opts, 0, EmptyString, zeroState, FALSE,
                               "no .go files found", zeroSync, FALSE, FALSE, db))
        ELSE IF inspected.err # ""
        THEN returns(RunRecord(opts, Len(metas), fingerprint, state, FALSE,
                               inspected.err, zeroSync, FALSE, FALSE, db))
        ELSE IF opts.Mode = "query" /\ ~rebuild
        THEN returns(RunRecord(opts, Len(metas), fingerprint, state, rebuild, "",
                               SyncStats("reuse", reason, 0, 0,
                                         state.FilesCount, state.NodesCount),
                               FALSE, FALSE, kept(db)))
        ELSE [returns |-> FALSE, rec |-> NoRun, state |-> state,
              rebuild |-> rebuild, reason |-> reason]

\* Run, the rebuild branch after parseFiles: writeDatabase, the second
\* inspectDuckDB, the clean-up and the return
runRebuild(scan, db, opts, decided, parse, fault) ==
    LET metas == scan.metas
        fingerprint == scan.fingerprint
        kept(d) == cleanupUnlessKept(opts, d)
        written == writeDatabase(db, parse.files, parse.nodes, fingerprint, fault)
        counts == inspectDuckDB(written.db, FALSE).state
    IN  IF written.err # ""
        THEN RunRecord(opts, Len(metas), fingerprint, decided.state, decided.rebuild,
                       written.err, zeroSync, TRUE, TRUE, written.db)
        ELSE RunRecord(opts, Len(metas), fingerprint, decided.state, decided.rebuild, "",
                       SyncStats("rebuild", decided.reason, Len(metas),
                                 parse.parseErrors,
                                 counts.FilesCount, counts.NodesCount),
                       TRUE, TRUE, kept(written.db))

\* func Run(ctx, opts) (Result, error) on the working copy fs and the DB file
\* db, with valid options, no subdir, no file cap and QueryBench = false;
\* fault: what fails in the call ("none", "stat" for os.Stat in inspectDuckDB,
\* "cancel" for ctx done, or one of WriteFaults)
Run(fs, db, opts, fault) ==
    LET scan == runScan(fs)
        decided == runDecide(scan, db, opts, fault = "stat")
    IN  IF decided.returns THEN decided.rec
        ELSE runRebuild(scan, db, opts, decided, parseFiles(fs, scan.metas), fault)

(***************************************************************************)
(* Variables                                                               *)
(***************************************************************************)

VARIABLES
    fpScans,    \* fingerprinter: the scans (sorted fileMeta lists) at hand
    fpOut,      \* fingerprinter: the fingerprint computed for each scan, "" before
    walkFile,   \* linearizer: the *ast.File being walked
    walkCalls,  \* linearizer: the callback calls ast.Inspect has still to make
    walk,       \* linearizer: walkNodes' rows, stack and ord
    poolIn,     \* parser pool: parseFiles' arguments (disk, metas, workers) and what parseFile returns for each meta
    poolFeeder, \* parser pool: the feeding goroutine (pc, index of the next meta)
    poolWorker, \* parser pool: each worker goroutine (pc, the meta it holds)
    poolChan,   \* parser pool: the jobs and out channels and the WaitGroup
    poolAcc,    \* parser pool: the collector's files, nodes and parseErrors
    poolRet,    \* parser pool: what parseFiles returned
    disk,       \* the working copy: each path's file, or NoFile
    db,         \* the DB file at dbPath
    before,     \* the DB file as the latest call of Run found it
    last,       \* the latest call of Run, until its result is taken
    prev,       \* the call of Run before, when nothing has changed since
    call,       \* the call of Run in progress: its position and its locals
    ctx,        \* the context of that call: "live", or "done" once cancelled
    failure,    \* the step of writeDatabase that failed in that call, or "none"
    idDisks,    \* file ids: the working copies of two runs
    idOut,      \* file ids: what parseFiles returned in each run
    optIn,      \* options: the Options a caller passes to Run, and the DB file
    optOut,     \* options: what that call of Run did
    ruleIn,     \* rules: the Rule a caller passes to ValidateRule
    ruleOut,    \* rules: what ValidateRule returned
    selIn,      \* ids: the arguments of a call of parseIDs, parseRuleIDs or SelectQueries
    selOut,     \* ids: what the call returned
    rowIn,      \* violations: a rule and one row of its result (columns and values)
    rowOut,     \* violations: the Violation that Run made of the row
    ruleTable,  \* governance: the rows of the governance_rules table, <<>> without the table
    clock,      \* governance: time.Now().Unix() at the latest call
    govOut,     \* governance: the latest call of the Runner and what it returned
    scanIn,     \* scanner: the tree, the repo root, the subdir and the cap given to collectGoFiles
    scanOut,    \* scanner: what collectGoFiles returned
    wrProc,     \* writers: two invocations of Run on one DB path: position, option, open file
    wrFile,     \* writers: the file linked at the DB path and the files made so far
    wrRemovedOpen, \* writers: whether an invocation removed a DB file another had open
    storeDB,    \* rules in the DB file: the DB file, its governance_rules rows included
    storeOut,   \* rules in the DB file: the last call, what it found and what it returned
    storeCalls  \* rules in the DB file: the calls made so far

fpVars == <<fpScans, fpOut>>
walkVars == <<walkFile, walkCalls, walk>>
poolVars == <<poolIn, poolFeeder, poolWorker, poolChan, poolAcc, poolRet>>
runVars == <<disk, db, before, last, prev, call, ctx, failure>>
idVars == <<idDisks, idOut>>
optVars == <<optIn, optOut>>
ruleVars == <<ruleIn, ruleOut>>
selVars == <<selIn, selOut>>
rowVars == <<rowIn, rowOut>>
govVars == <<ruleTable, clock, govOut>>
scanVars == <<scanIn, scanOut>>
wrVars == <<wrProc, wrFile, wrRemovedOpen>>
storeVars == <<storeDB, storeOut, storeCalls>>
vars == <<fpScans, fpOut, walkFile, walkCalls, walk,
          poolIn, poolFeeder, poolWorker, poolChan, poolAcc, poolRet,
          disk, db, before, last, prev, call, ctx, failure, idDisks, idOut,
          optIn, optOut, ruleIn, ruleOut,
          selIn, selOut,
          rowIn, rowOut,
          ruleTable, clock, govOut,
          scanIn, scanOut,
          wrProc, wrFile, wrRemovedOpen,
          storeDB, storeOut, storeCalls>>

\* the variables of the other specifications, at rest
FpIdle == fpScans = <<>> /\ fpOut = <<>>
WalkIdle == walkFile = NilNode /\ walkCalls = <<>> /\ walk = walkStart
NotReturned == [returned |-> FALSE, files |-> <<>>, nodes |-> <<>>, parseErrors |-> 0]
PoolIdle ==
    /\ poolIn = [fs |-> [p \in AllPaths |-> NoFile], metas |-> <<>>, workers |-> 0,
                 parsed |-> <<>>]
    /\ poolFeeder = [pc |-> "done", next |-> 1]
    /\ poolWorker = <<>>
    /\ poolChan = [jobsClosed |-> TRUE, out |-> <<>>, outClosed |-> TRUE, wg |-> 0]
    /\ poolAcc = collectStart
    /\ poolRet = NotReturned
\* no call of Run in progress
NoCall ==
    [pc |-> "idle", opts |-> Options("", FALSE, FALSE, FALSE),
     scan |-> [metas |-> <<>>, fingerprint |-> EmptyString],
     decided |-> [state |-> zeroState, rebuild |-> FALSE, reason |-> ""],
     parse |-> collectStart]
NoPrev == [valid |-> FALSE, ReuseAsked |-> FALSE, KeepOutputFiles |-> FALSE, Action |-> "",
           FilesCount |-> 0, NodesCount |-> 0, dbAbsent |-> FALSE]
RunIdle ==
    /\ disk = [p \in AllPaths |-> NoFile]
    /\ db = NoDB
    /\ before = NoDB
    /\ last = NoRun
    /\ prev = NoPrev
    /\ call = NoCall
    /\ ctx = "live"
    /\ failure = "none"
IdIdle == idDisks = <<>> /\ idOut = <<>>
OptIdle == optIn = <<>> /\ optOut = <<>>
RuleIdle == ruleIn = <<>> /\ ruleOut = <<>>
SelIdle == selIn = <<>> /\ selOut = <<>>
RowIdle == rowIn = <<>> /\ rowOut = <<>>
GovIdle == ruleTable = <<>> /\ clock = 0 /\ govOut = <<>>
ScanIdle == scanIn = <<>> /\ scanOut = <<>>
WrIdle == wrProc = <<>> /\ wrFile = <<>> /\ wrRemovedOpen = FALSE
StoreIdle == storeDB = NoDB /\ storeOut = <<>> /\ storeCalls = 0

(***************************************************************************)
(* Run, called again and again on a working copy that changes in between   *)
(***************************************************************************)

\* the latest mod-time a file of the working copy is given
MaxModTime == 2

\* the files of the working copy and the source each holds
RunPaths == {PathA, PathB}
RunSizeOf(path) == IF path = PathA THEN 30 ELSE 10
RunSrcOf(path) == IF path = PathA THEN "main" ELSE "pkg"

RunDisk0 ==
    [p \in AllPaths |->
        IF p \in RunPaths THEN diskFile(RunSizeOf(p), 1, TRUE, RunSrcOf(p)) ELSE NoFile]

\* the version constant of an earlier build of the program
legacySchemaVersion == "0"

\* the DB an earlier build of the program left for the initial working copy
LegacyDB ==
    LET metas == collectGoFiles(RunDisk0, 0)
        parse == parseFiles(RunDisk0, metas)
    IN  builtDB(parse.files, parse.nodes, sourceFingerprint(metas), legacySchemaVersion)

\* the DB a kept build of this program left for the initial working copy
CurrentDB ==
    LET metas == collectGoFiles(RunDisk0, 0)
        parse == parseFiles(RunDisk0, metas)
    IN  builtDB(parse.files, parse.nodes, sourceFingerprint(metas), schemaVersion)

RunModes == {"build", "query", "both"}
RunOptions ==
    {Options(m, r, f, k) : m \in RunModes, r \in BOOLEAN, f \in BOOLEAN, k \in BOOLEAN}

RunInit ==
    /\ disk = RunDisk0
    /\ db \in {NoDB, LegacyDB, CurrentDB}
    /\ before = NoDB
    /\ last = NoRun
    /\ prev = NoPrev
    /\ call = NoCall
    /\ ctx = "live"
    /\ failure = "none"
    /\ FpIdle
    /\ WalkIdle
    /\ PoolIdle
    /\ IdIdle
    /\ OptIdle
    /\ RuleIdle
    /\ SelIdle
    /\ RowIdle
    /\ GovIdle
    /\ ScanIdle
    /\ WrIdle
    /\ StoreIdle

\* a caller calls Run(ctx, opts); Run scans the working copy and computes the
\* fingerprint
BeginRun(opts) ==
    /\ call.pc = "idle"
    /\ ~last.ran
    /\ call' = [NoCall EXCEPT !.pc = "scanned", !.opts = opts, !.scan = runScan(disk)]
    /\ before' = db
    /\ UNCHANGED <<disk, db, last, prev, ctx, failure, fpVars, walkVars, poolVars, idVars, optVars, ruleVars, selVars, rowVars, govVars, scanVars, wrVars, storeVars>>

\* the caller cancels ctx while Run scans or parses
CancelCtx ==
    /\ call.pc \in {"scanned", "parse"}
    /\ ctx = "live"
    /\ ctx' = "done"
    /\ UNCHANGED <<disk, db, before, last, prev, call, failure, fpVars, walkVars, poolVars, idVars, optVars, ruleVars, selVars, rowVars, govVars, scanVars, wrVars, storeVars>>

\* Run inspects the DB file and decides: it returns an error, returns the
\* reuse result (after the clean-up), or goes on to parse
RunInspect(statFails) ==
    /\ call.pc = "scanned"
    /\ LET decided == runDecide(call.scan, db, call.opts, statFails)
       IN  IF decided.returns
           THEN /\ last' = decided.rec
                /\ db' = decided.rec.db
                /\ call' = NoCall
           ELSE /\ call' = [call EXCEPT
                              !.pc = "parse",
                              !.decided = [state |-> decided.state,
                                           rebuild |-> decided.rebuild,
                                           reason |-> decided.reason]]
                /\ UNCHANGED <<last, db>>
    /\ UNCHANGED <<disk, before, prev, ctx, failure, fpVars, walkVars, poolVars, idVars, optVars, ruleVars, selVars, rowVars, govVars, scanVars, wrVars, storeVars>>

\* files, nodes, parseErrors := parseFiles(repoRoot, metas, opts.Workers)
RunParse ==
    /\ call.pc = "parse"
    /\ LET parse == parseFiles(disk, call.scan.metas)
       IN  call' = [call EXCEPT
                      !.pc = "write",
                      !.parse = [files |-> parse.files, nodes |-> parse.nodes,
                                 parseErrors |-> parse.parseErrors]]
    /\ UNCHANGED <<disk, db, before, last, prev, ctx, failure, fpVars, walkVars, poolVars, idVars, optVars, ruleVars, selVars, rowVars, govVars, scanVars, wrVars, storeVars>>

\* Run calls writeDatabase with ctx, counts the rows, cleans up and returns
RunWrite(fault) ==
    /\ call.pc = "write"
    /\ ctx = "done" => fault = "none"
    /\ last' = runRebuild(call.scan, db, call.opts, call.decided, call.parse,
                          IF ctx = "done" THEN "cancel" ELSE fault)
    /\ db' = last'.db
    /\ call' = NoCall
    /\ failure' = fault
    /\ UNCHANGED <<disk, before, prev, ctx, fpVars, walkVars, poolVars, idVars, optVars, ruleVars, selVars, rowVars, govVars, scanVars, wrVars, storeVars>>

\* what the next call is compared with: a successful build-mode call, whether
\* it asked for reuse (reuse = true, force_rebuild = false), what it returned
\* and whether it found no DB file
Remembered(r, dbBefore) ==
    IF r.err = "" /\ r.opts.Mode = "build"
    THEN [valid |-> TRUE, ReuseAsked |-> r.opts.Reuse /\ ~r.opts.ForceRebuild,
          KeepOutputFiles |-> r.opts.KeepOutputFiles,
          Action |-> r.Sync.Action, FilesCount |-> r.Sync.FilesCount,
          NodesCount |-> r.Sync.NodesCount, dbAbsent |-> ~dbBefore.Exists]
    ELSE NoPrev

\* the caller takes the result (or the error) of the call
TakeResult ==
    /\ last.ran
    /\ prev' = Remembered(last, before)
    /\ last' = NoRun
    /\ before' = NoDB
    /\ ctx' = "live"
    /\ failure' = "none"
    /\ UNCHANGED <<disk, db, call, fpVars, walkVars, poolVars, idVars, optVars, ruleVars, selVars, rowVars, govVars, scanVars, wrVars, storeVars>>

\* the file of the working copy that is being edited
EditedPaths == {PathA}

\* between two calls a file of the working copy is saved again
Touch(p) ==
    /\ call.pc = "idle"
    /\ ~last.ran
    /\ disk[p].Exists
    /\ disk[p].ModUnixNano < MaxModTime
    /\ disk' = [disk EXCEPT ![p].ModUnixNano = @ + 1]
    /\ prev' = NoPrev
    /\ UNCHANGED <<db, before, last, call, ctx, failure, fpVars, walkVars, poolVars, idVars, optVars, ruleVars, selVars, rowVars, govVars, scanVars, wrVars, storeVars>>

\* between two calls a file's read permission is taken away or given back
Chmod(p) ==
    /\ call.pc = "idle"
    /\ ~last.ran
    /\ disk[p].Exists
    /\ disk' = [disk EXCEPT ![p].Readable = ~@]
    /\ prev' = NoPrev
    /\ UNCHANGED <<db, before, last, call, ctx, failure, fpVars, walkVars, poolVars, idVars, optVars, ruleVars, selVars, rowVars, govVars, scanVars, wrVars, storeVars>>

Next ==
    \/ \E opts \in RunOptions : BeginRun(opts)
    \/ CancelCtx
    \/ \E statFails \in BOOLEAN : RunInspect(statFails)
    \/ RunParse
    \/ \E fault \in {"none"} \cup WriteFaults : RunWrite(fault)
    \/ TakeResult
    \/ \E p \in EditedPaths : Touch(p)
    \/ \E p \in RunPaths : Chmod(p)

Spec == RunInit /\ [][Next]_vars

(***************************************************************************)
(* Properties of Run                                                       *)
(***************************************************************************)

\* the call the state shows returned a result, not an error
RunOk == last.ran /\ last.err = ""

\* the call the state shows asked for reuse
ReuseAsked == last.opts.Reuse /\ ~last.opts.ForceRebuild

\* a query-mode call asking for reuse follows a successful build-mode call
\* that found no DB file, nothing having changed in between
QueryAfterFirstBuild ==
    /\ RunOk
    /\ last.opts.Mode = "query"
    /\ ReuseAsked
    /\ prev.valid
    /\ prev.dbAbsent

\* some file of the working copy can be read
SomeReadable == \E p \in AllPaths : disk[p].Exists /\ disk[p].Readable

BuildTwiceReuses ==
    (/\ RunOk
     /\ last.opts.Mode = "build"
     /\ ReuseAsked
     /\ prev.valid
     /\ prev.ReuseAsked
     /\ prev.dbAbsent
     /\ prev.KeepOutputFiles) =>
        /\ prev.Action = "rebuild"
        /\ last.Sync.Action = "reuse"
        /\ last.Sync.FilesCount = prev.FilesCount
        /\ last.Sync.NodesCount = prev.NodesCount

\* the call the state shows got as far as the reuse decision
Decided == last.ran /\ (last.err = "" \/ last.wrote)

\* the five predicates of the reuse decision as the specification lists them
ListedPredicates(r) ==
    << r.opts.ForceRebuild,
       ~r.opts.Reuse,
       ~r.state.Exists,
       r.state.SchemaVersion # schemaVersion,
       r.state.SourceFingerprint # EmptyString /\ r.state.SourceFingerprint # r.fingerprint >>

\* C3: for every mode, Run rebuilds (parses and writes, action = rebuild) if
\* and only if one of the five listed predicates holds; otherwise
\* action = reuse and nothing is parsed or written
RebuildIffListedPredicate ==
    Decided =>
        LET any == \E i \in 1..5 : ListedPredicates(last)[i]
        IN  /\ last.parsed = any
            /\ last.wrote = any
            /\ last.err = "" => last.Sync.Action = (IF any THEN "rebuild" ELSE "reuse")

\* the reasons, in the order of their predicates
reasonNames ==
    << "force rebuild enabled", "reuse disabled", "database missing",
       "schema changed", "source changed" >>

\* the predicates as Run tests them for the reason: a schema or a source
\* change is one of an existing DB
ReasonPredicates(r) ==
    << r.opts.ForceRebuild,
       ~r.opts.Reuse,
       ~r.state.Exists,
       r.state.Exists /\ r.state.SchemaVersion # schemaVersion,
       /\ r.state.Exists
       /\ r.state.SourceFingerprint # EmptyString
       /\ r.state.SourceFingerprint # r.fingerprint >>

Applicable(ps) == {i \in 1..5 : ps[i]}
MinOf(S) == CHOOSE i \in S : \A j \in S : i <= j
MaxOf(S) == CHOOSE i \in S : \A j \in S : j <= i

\* C4 as stated: the reason is that of the FIRST applicable predicate in the
\* order force flag, reuse disabled, database missing, schema changed, source
\* changed, and "up-to-date" when none applies
ReasonIsFirstApplicable ==
    RunOk =>
        LET S == Applicable(ListedPredicates(last))
        IN  last.Sync.Reason = (IF S = {} THEN "up-to-date" ELSE reasonNames[MinOf(S)])

\* C4: the reason is that of the LAST applicable predicate in the order force
\* flag, reuse disabled, database missing, schema changed, source changed
\* (the last two applying to an existing DB only), and "up-to-date" when none
\* applies
ReasonIsLastApplicable ==
    RunOk =>
        LET S == Applicable(ReasonPredicates(last))
        IN  last.Sync.Reason = (IF S = {} THEN "up-to-date" ELSE reasonNames[MaxOf(S)])

ReasonIsLastApplicableWitness ==
    /\ RunOk
    /\ last.opts.ForceRebuild
    /\ ReasonPredicates(last)[5]
    /\ last.Sync.Reason = "source changed"

\* the DB file the call found stores a schema_version other than the compiled
\* one
StoredOtherVersion ==
    /\ RunOk
    /\ before.Exists
    /\ before.schema_version # ""
    /\ before.schema_version # schemaVersion

\* C5 as stated: an existing DB storing another schema_version makes Run
\* return action = rebuild with reason "schema changed", and after the run
\* the stored schema_version is the compiled one
SchemaChangeRebuilds ==
    StoredOtherVersion =>
        /\ last.Sync.Action = "rebuild"
        /\ last.Sync.Reason = "schema changed"
        /\ db.Exists
        /\ db.schema_version = schemaVersion

\* C5: an existing DB storing another schema_version makes Run return
\* action = rebuild, with reason "schema changed" unless the stored
\* fingerprint differs from the current one too (then "source changed"), and
\* after the run the DB, if the run keeps it, stores the compiled
\* schema_version
SchemaChangeRebuildsKept ==
    StoredOtherVersion =>
        /\ last.Sync.Action = "rebuild"
        /\ last.Sync.Reason =
              (IF /\ before.source_fingerprint # EmptyString
                  /\ before.source_fingerprint # last.fingerprint
               THEN "source changed" ELSE "schema changed")
        /\ last.opts.KeepOutputFiles => db.Exists /\ db.schema_version = schemaVersion
        /\ ~last.opts.KeepOutputFiles => ~db.Exists

SchemaChangeRebuildsKeptWitness ==
    /\ StoredOtherVersion
    /\ last.opts.Mode = "query"
    /\ ReuseAsked
    /\ last.Sync.Reason = "schema changed"
    /\ db.schema_version = schemaVersion

\* the tables inspectDuckDB reads
coreTables == {"files", "nodes", "run_meta"}

\* the call the state shows inspected the DB file it found
Inspected == last.ran /\ last.ScanFiles > 0 /\ last.err # "stat db"

WriterSucceededKept == RunOk /\ last.wrote /\ last.opts.KeepOutputFiles

\* the rows Run hands to writeDatabase for the working copy of the state
SuppliedRows == parseFiles(disk, runScan(disk).metas)

\* C13 as stated: when the writer returns success, the DB holds exactly the
\* supplied file rows and node rows, none left over and none missing, and
\* run_meta holds the compiled schema version and the supplied fingerprint
WriterStoresSuppliedRows ==
    WriterSucceededKept =>
        /\ db.files = SuppliedRows.files
        /\ db.nodes = SuppliedRows.nodes
        /\ db.schema_version = schemaVersion
        /\ db.source_fingerprint = last.fingerprint

\* the failures of writeDatabase between BEGIN TRANSACTION and COMMIT
BetweenBeginAndCommit == {"append", "closeFiles", "closeNodes", "meta", "commit"}

\* the call the state shows met a failure between BEGIN and COMMIT
FailedInTransaction == last.ran /\ failure \in BetweenBeginAndCommit

\* C14 as stated: every error between BEGIN and COMMIT (append, appender
\* flush/close, run_meta upsert, COMMIT) is rolled back and returned to the
\* caller, and the destination DB file is removed
WriterErrorRollsBackAndRemoves ==
    FailedInTransaction =>
        /\ last.err # ""
        /\ db.files = <<>>
        /\ db.nodes = <<>>
        /\ ~db.Exists

\* C15 as stated: when a rebuild fails between BEGIN and COMMIT while a
\* previously built DB exists, that DB's files, nodes and run_meta are still
\* present and unchanged after Run returns the error
FailedRebuildKeepsPreviousDB ==
    (FailedInTransaction /\ last.err # "" /\ before.Exists
                         /\ coreTables \subseteq before.Tables) =>
        /\ db.Exists
        /\ db.files = before.files
        /\ db.nodes = before.nodes
        /\ db.schema_version = before.schema_version
        /\ db.source_fingerprint = before.source_fingerprint

\* C16 as stated: when ctx is cancelled while Run scans or parses, Run
\* returns an error and the DB file is exactly as it was before the call
CancelLeavesDBAsBefore ==
    (last.ran /\ ctx = "done") =>
        /\ last.err # ""
        /\ db = before

\* the call the state shows reused the DB and kept it
ReusedKept == RunOk /\ last.Sync.Action = "reuse" /\ last.opts.KeepOutputFiles

\* C17: a call whose action is reuse, with keep_output_files = true, neither
\* parses nor writes: the DB file is as it was before the call, and the
\* reported files_count and nodes_count are the counts inspectDuckDB read,
\* the numbers of rows of files and nodes
ReuseWritesNothing ==
    ReusedKept =>
        /\ db = before
        /\ ~last.parsed
        /\ ~last.wrote
        /\ last.Sync.FilesCount = last.state.FilesCount
        /\ last.Sync.NodesCount = last.state.NodesCount
        /\ last.Sync.FilesCount = Len(before.files)
        /\ last.Sync.NodesCount = Len(before.nodes)

ReuseWritesNothingWitness ==
    /\ ReusedKept
    /\ before.Exists
    /\ before.files # <<>>
    /\ last.Sync.NodesCount > 0
    /\ db = before

\* C18: after a successful call with keep_output_files = false the DB file
\* (with its side files) is gone, whether the action was rebuild or reuse;
\* after a successful call with keep_output_files = true it exists
KeepDecidesDBFile ==
    RunOk => (db.Exists <=> last.opts.KeepOutputFiles)

KeepDecidesDBFileWitness ==
    /\ RunOk
    /\ ~last.opts.KeepOutputFiles
    /\ last.Sync.Action = "reuse"
    /\ before.Exists
    /\ ~db.Exists

(***************************************************************************)
(* Fingerprinter: two scans, fingerprinted independently                   *)
(***************************************************************************)

\* most files in one scan of the fingerprint specification
MaxScanFiles == 2

FpPaths == <<PathA, PathAB, PathB>>
FpSizes == {1, 11}
FpModTimes == {1, 11}
FpMetas(path) == {fileMeta(path, sz, mt) : sz \in FpSizes, mt \in FpModTimes}

\* the scans whose paths are FpPaths[k], k >= from, at most n files: sorted by
\* path, no path twice, as collectGoFiles returns them
RECURSIVE ScansFrom(_, _)
ScansFrom(from, n) ==
    IF n = 0 \/ from > Len(FpPaths) THEN {<<>>}
    ELSE ScansFrom(from + 1, n)
         \cup {<<m>> \o rest : m \in FpMetas(FpPaths[from]),
                               rest \in ScansFrom(from + 1, n - 1)}

FpScanLists == ScansFrom(1, MaxScanFiles)

FpInit ==
    /\ fpScans \in [1..2 -> FpScanLists]
    /\ fpOut = [i \in 1..2 |-> EmptyString]
    /\ WalkIdle
    /\ PoolIdle
    /\ RunIdle
    /\ IdIdle
    /\ OptIdle
    /\ RuleIdle
    /\ SelIdle
    /\ RowIdle
    /\ GovIdle
    /\ ScanIdle
    /\ WrIdle
    /\ StoreIdle

\* fingerprint := sourceFingerprint(metas)
Fingerprint(i) ==
    /\ fpOut[i] = EmptyString
    /\ fpOut' = [fpOut EXCEPT ![i] = sourceFingerprint(fpScans[i])]
    /\ UNCHANGED <<fpScans, walkVars, poolVars, runVars, idVars, optVars, ruleVars, selVars, rowVars, govVars, scanVars, wrVars, storeVars>>

FpNext == \E i \in 1..2 : Fingerprint(i)

SpecFp == FpInit /\ [][FpNext]_vars

FpBothDone == fpOut[1] # EmptyString /\ fpOut[2] # EmptyString

\* C7: two scans have the same source fingerprint if and only if their sorted
\* lists of (relative path, size, mod-time) tuples are identical
FingerprintDeterminesScan ==
    FpBothDone => ((fpOut[1] = fpOut[2]) <=> (fpScans[1] = fpScans[2]))

\* the number of positions at which two scans of equal length differ
DiffCount(s, t) == Cardinality({k \in 1..Len(s) : s[k] # t[k]})

\* C7 witness: both scans fingerprinted, the scans differ in one file's
\* mod-time only, and the fingerprints differ
FingerprintTouchedWitness ==
    /\ FpBothDone
    /\ Len(fpScans[1]) = 2 /\ Len(fpScans[2]) = 2
    /\ DiffCount(fpScans[1], fpScans[2]) = 1
    /\ \E k \in 1..2 :
          /\ fpScans[1][k].RelPath = fpScans[2][k].RelPath
          /\ fpScans[1][k].Size = fpScans[2][k].Size
          /\ fpScans[1][k].ModUnixNano # fpScans[2][k].ModUnixNano
    /\ fpOut[1] # fpOut[2]

(***************************************************************************)
(* Linearizer: one walk of one file, callback by callback                  *)
(***************************************************************************)

\* most nodes in an AST of the linearizer specification
MaxAstNodes == 5

\* a node below the file root: an identifier when it has no children
innerNode(children) ==
    IF children = <<>> THEN astNode("*ast.Ident", "x", <<>>)
    ELSE astNode("*ast.BlockStmt", "", children)

\* every ordered forest with exactly k nodes
RECURSIVE ForestsOfSize(_)
ForestsOfSize(k) ==
    IF k = 0 THEN {<<>>}
    ELSE UNION {{<<innerNode(cs)>> \o rest :
                    cs \in ForestsOfSize(j - 1), rest \in ForestsOfSize(k - j)} :
                j \in 1..k}

\* every *ast.File with at most MaxAstNodes nodes
WalkFiles ==
    UNION {{astNode("*ast.File", "", cs) : cs \in ForestsOfSize(k - 1)} :
           k \in 1..MaxAstNodes}

walkFileID == fileIDForPath(PathA)

WalkInit ==
    /\ walkFile \in WalkFiles
    /\ walkCalls = InspectCalls(walkFile)
    /\ walk = walkStart
    /\ FpIdle
    /\ PoolIdle
    /\ RunIdle
    /\ IdIdle
    /\ OptIdle
    /\ RuleIdle
    /\ SelIdle
    /\ RowIdle
    /\ GovIdle
    /\ ScanIdle
    /\ WrIdle
    /\ StoreIdle

\* ast.Inspect calls the callback with a node
WalkEnter ==
    /\ walkCalls # <<>>
    /\ Head(walkCalls) # NilNode
    /\ walk' = walkCallback(walk, walkFileID, Head(walkCalls))
    /\ walkCalls' = Tail(walkCalls)
    /\ UNCHANGED <<walkFile, fpVars, poolVars, runVars, idVars, optVars, ruleVars, selVars, rowVars, govVars, scanVars, wrVars, storeVars>>

\* ast.Inspect calls the callback with nil, after a node's children
WalkLeave ==
    /\ walkCalls # <<>>
    /\ Head(walkCalls) = NilNode
    /\ walk' = walkCallback(walk, walkFileID, Head(walkCalls))
    /\ walkCalls' = Tail(walkCalls)
    /\ UNCHANGED <<walkFile, fpVars, poolVars, runVars, idVars, optVars, ruleVars, selVars, rowVars, govVars, scanVars, wrVars, storeVars>>

WalkNext == WalkEnter \/ WalkLeave

SpecWalk == WalkInit /\ [][WalkNext]_vars

WalkDone == walkFile # NilNode /\ walkCalls = <<>>

\* C9: the rows of a file have the ordinals 1..N, each once, and a row with a
\* parent has parent_ordinal < ordinal; a finished walk has a row per node
OrdinalsDense ==
    /\ \A i \in 1..Len(walk.rows) : walk.rows[i].Ordinal = i
    /\ \A i \in 1..Len(walk.rows) :
          walk.rows[i].HasParent =>
              /\ walk.rows[i].ParentOrdinal >= 1
              /\ walk.rows[i].ParentOrdinal < walk.rows[i].Ordinal
    /\ WalkDone => Len(walk.rows) = NodeCount(walkFile)

\* C9 witness: a finished walk of a file with nested and sibling nodes
OrdinalsDenseWitness ==
    /\ WalkDone
    /\ Len(walk.rows) = MaxAstNodes
    /\ \E i \in 1..Len(walk.rows) : walk.rows[i].ParentOrdinal = 2
    /\ \E i, j \in 1..Len(walk.rows) :
          i # j /\ walk.rows[i].ParentOrdinal = 1 /\ walk.rows[j].ParentOrdinal = 1

(***************************************************************************)
(* Parser pool: parseFiles' goroutines, step by step                       *)
(***************************************************************************)

\* most worker goroutines in the parser pool specification
MaxWorkers == 2

\* the working copies the pool is run on: each path absent or in one of the
\* conditions listed for it
PoolFilesAt(path) ==
    IF path = PathA THEN {NoFile, diskFile(30, 1, TRUE, "main")}
    ELSE IF path = PathAB
    THEN {NoFile, diskFile(10, 1, TRUE, "pkg"), diskFile(10, 1, FALSE, "pkg")}
    ELSE {NoFile, diskFile(15, 1, TRUE, "broken")}

PoolDisks ==
    {fs \in [AllPaths -> UNION {PoolFilesAt(p) : p \in AllPaths}] :
        /\ \A p \in AllPaths : fs[p] \in PoolFilesAt(p)
        /\ \E p \in AllPaths : fs[p].Exists}

\* what parseFile(repoRoot, meta) returns for each scanned file: the working
\* copy does not change while parseFiles runs
parseEach(fs, metas) == [k \in 1..Len(metas) |-> parseFile(fs, metas[k])]

PoolInit ==
    /\ \E fs \in PoolDisks, w \in 1..MaxWorkers :
          /\ poolIn = [fs |-> fs, metas |-> collectGoFiles(fs, 0), workers |-> w,
                       parsed |-> parseEach(fs, collectGoFiles(fs, 0))]
          /\ poolWorker = [i \in 1..w |->
                             [pc |-> "recv", meta |-> fileMeta(<<>>, 0, 0), job |-> 0]]
          /\ poolChan = [jobsClosed |-> FALSE, out |-> <<>>, outClosed |-> FALSE, wg |-> w]
    /\ poolFeeder = [pc |-> "feed", next |-> 1]
    /\ poolAcc = collectStart
    /\ poolRet = NotReturned
    /\ FpIdle
    /\ WalkIdle
    /\ RunIdle
    /\ IdIdle
    /\ OptIdle
    /\ RuleIdle
    /\ SelIdle
    /\ RowIdle
    /\ GovIdle
    /\ ScanIdle
    /\ WrIdle
    /\ StoreIdle

\* jobs <- meta meets a worker's receive in "for meta := range jobs"
PoolHandOff(i) ==
    /\ poolFeeder.pc = "feed"
    /\ poolFeeder.next <= Len(poolIn.metas)
    /\ poolWorker[i].pc = "recv"
    /\ poolWorker' = [poolWorker EXCEPT
                        ![i] = [pc |-> "send", meta |-> poolIn.metas[poolFeeder.next],
                                job |-> poolFeeder.next]]
    /\ poolFeeder' = [poolFeeder EXCEPT !.next = @ + 1]
    /\ UNCHANGED <<poolIn, poolChan, poolAcc, poolRet, fpVars, walkVars, runVars, idVars, optVars, ruleVars, selVars, rowVars, govVars, scanVars, wrVars, storeVars>>

\* close(jobs), once every meta is sent
PoolCloseJobs ==
    /\ poolFeeder.pc = "feed"
    /\ poolFeeder.next > Len(poolIn.metas)
    /\ poolFeeder' = [poolFeeder EXCEPT !.pc = "wait"]
    /\ poolChan' = [poolChan EXCEPT !.jobsClosed = TRUE]
    /\ UNCHANGED <<poolIn, poolWorker, poolAcc, poolRet, fpVars, walkVars, runVars, idVars, optVars, ruleVars, selVars, rowVars, govVars, scanVars, wrVars, storeVars>>

\* out <- parseFile(repoRoot, meta), the result taken from poolIn.parsed; out
\* has room for len(metas) results
PoolSend(i) ==
    /\ poolWorker[i].pc = "send"
    /\ Len(poolChan.out) < Len(poolIn.metas)
    /\ poolChan' = [poolChan EXCEPT
                      !.out = Append(@, poolIn.parsed[poolWorker[i].job])]
    /\ poolWorker' = [poolWorker EXCEPT ![i].pc = "recv"]
    /\ UNCHANGED <<poolIn, poolFeeder, poolAcc, poolRet, fpVars, walkVars, runVars, idVars, optVars, ruleVars, selVars, rowVars, govVars, scanVars, wrVars, storeVars>>

\* the worker's range over the closed jobs channel ends: wg.Done()
PoolWorkerExit(i) ==
    /\ poolWorker[i].pc = "recv"
    /\ poolChan.jobsClosed
    /\ poolWorker' = [poolWorker EXCEPT ![i].pc = "done"]
    /\ poolChan' = [poolChan EXCEPT !.wg = @ - 1]
    /\ UNCHANGED <<poolIn, poolFeeder, poolAcc, poolRet, fpVars, walkVars, runVars, idVars, optVars, ruleVars, selVars, rowVars, govVars, scanVars, wrVars, storeVars>>

\* the feeder goroutine ending after wg.Wait() without close(out)
PoolCloseOutLeftOpen ==
    /\ poolFeeder.pc = "wait"
    /\ poolChan.wg = 0
    /\ poolFeeder' = [poolFeeder EXCEPT !.pc = "done"]
    /\ UNCHANGED <<poolIn, poolWorker, poolChan, poolAcc, poolRet, fpVars, walkVars, runVars, idVars, optVars, ruleVars, selVars, rowVars, govVars, scanVars, wrVars, storeVars>>

\* wg.Wait() returns; close(out)
PoolCloseOut ==
    /\ poolFeeder.pc = "wait"
    /\ poolChan.wg = 0
    /\ poolFeeder' = [poolFeeder EXCEPT !.pc = "done"]
    /\ poolChan' = [poolChan EXCEPT !.outClosed = TRUE]
    /\ UNCHANGED <<poolIn, poolWorker, poolAcc, poolRet, fpVars, walkVars, runVars, idVars, optVars, ruleVars, selVars, rowVars, govVars, scanVars, wrVars, storeVars>>

\* for r := range out: one result received and appended
PoolCollect ==
    /\ ~poolRet.returned
    /\ poolChan.out # <<>>
    /\ poolAcc' = collectResult(poolAcc, Head(poolChan.out))
    /\ poolChan' = [poolChan EXCEPT !.out = Tail(@)]
    /\ UNCHANGED <<poolIn, poolFeeder, poolWorker, poolRet, fpVars, walkVars, runVars, idVars, optVars, ruleVars, selVars, rowVars, govVars, scanVars, wrVars, storeVars>>

\* the range over out ends (closed and drained): sort and return
PoolReturn ==
    /\ ~poolRet.returned
    /\ poolChan.out = <<>>
    /\ poolChan.outClosed
    /\ poolRet' = [returned |-> TRUE] @@ collectReturn(poolAcc)
    /\ UNCHANGED <<poolIn, poolFeeder, poolWorker, poolChan, poolAcc, fpVars, walkVars, runVars, idVars, optVars, ruleVars, selVars, rowVars, govVars, scanVars, wrVars, storeVars>>

PoolNext ==
    \/ \E i \in DOMAIN poolWorker : PoolHandOff(i)
    \/ PoolCloseJobs
    \/ \E i \in DOMAIN poolWorker : PoolSend(i)
    \/ \E i \in DOMAIN poolWorker : PoolWorkerExit(i)
    \/ PoolCloseOut
    \/ PoolCollect
    \/ PoolReturn

SpecPool == PoolInit /\ [][PoolNext]_vars

\* C10: whatever the worker count and the order of arrival, parseFiles hands on
\* the same lists: the file rows of the scanned files ascending by path, their
\* node rows ascending by (file_id, ordinal)
PoolOutputSorted ==
    poolRet.returned =>
        /\ Len(poolRet.files) = Len(poolIn.metas)
        /\ Range(poolRet.files) =
              {parseFile(poolIn.fs, poolIn.metas[k]).File : k \in 1..Len(poolIn.metas)}
        /\ \A k \in 1..(Len(poolRet.files) - 1) :
              StrLess(poolRet.files[k].Path, poolRet.files[k + 1].Path)
        /\ Range(poolRet.nodes) =
              UNION {Range(parseFile(poolIn.fs, poolIn.metas[k]).Rows) :
                       k \in 1..Len(poolIn.metas)}
        /\ \A k \in 1..(Len(poolRet.nodes) - 1) :
              LET a == poolRet.nodes[k]
                  b == poolRet.nodes[k + 1]
              IN  \/ Int64Less(a.FileID, b.FileID)
                  \/ a.FileID = b.FileID /\ a.Ordinal < b.Ordinal

\* C10 witness: two workers delivered three files' results out of path order,
\* and parseFiles has returned
PoolOutputSortedWitness ==
    /\ poolRet.returned
    /\ poolIn.workers = 2
    /\ Len(poolAcc.files) = 3
    /\ StrLess(poolAcc.files[2].Path, poolAcc.files[1].Path)
    /\ poolAcc.nodes # poolRet.nodes

\* the file at path cannot be read or does not parse
FailsToParse(fs, path) == ~fs[path].Readable \/ fs[path].Src = "broken"

\* the working copy holding the file at path alone
Alone(fs, path) == [q \in AllPaths |-> IF q = path THEN fs[q] ELSE NoFile]

\* the rows of nodes that belong to the file at path
NodesOf(nodes, path) == SelectSeq(nodes, LAMBDA n : n.FileID = fileIDForPath(path))

\* C11: a file that cannot be read or parsed never fails parseFiles: every
\* scanned file gets exactly one file row, whose parse_error is non-empty
\* exactly when the file failed; the node rows of every other file are those
\* the file gives when parsed alone; parse_errors is the number of file rows
\* with a non-empty parse_error
ParseErrorsIsolated ==
    poolRet.returned =>
        /\ Len(poolRet.files) = Len(poolIn.metas)
        /\ \A k \in 1..Len(poolIn.metas) :
              LET path == poolIn.metas[k].RelPath
                  rows == SelectSeq(poolRet.files, LAMBDA f : f.Path = path)
              IN  /\ Len(rows) = 1
                  /\ (rows[1].ParseError # "") <=> FailsToParse(poolIn.fs, path)
                  /\ NodesOf(poolRet.nodes, path) =
                        parseFiles(Alone(poolIn.fs, path), <<poolIn.metas[k]>>).nodes
        /\ poolRet.parseErrors =
              Cardinality({k \in 1..Len(poolRet.files) : poolRet.files[k].ParseError # ""})

\* C11 witness: parseFiles returned for a working copy with one file that
\* cannot be read, one that does not parse and one sound file, whose seven
\* node rows are there
ParseErrorsIsolatedWitness ==
    /\ poolRet.returned
    /\ Len(poolRet.files) = 3
    /\ poolRet.parseErrors = 2
    /\ ~poolIn.fs[PathAB].Readable
    /\ ~FailsToParse(poolIn.fs, PathA)
    /\ Len(NodesOf(poolRet.nodes, PathA)) = 7

(***************************************************************************)
(* File ids: two runs over working copies that differ                      *)
(***************************************************************************)

\* what the files of a working copy hold: one profile, and the profiles that
\* differ from it in size, in mod-time, in content and in being readable
IdProfiles ==
    { diskFile(10, 1, TRUE, "main"),
      diskFile(30, 1, TRUE, "main"),
      diskFile(10, 2, TRUE, "main"),
      diskFile(10, 1, TRUE, "broken"),
      diskFile(10, 1, FALSE, "main") }

\* the working copies: a non-empty set of paths, every file with the profile
IdDiskSet ==
    {[p \in AllPaths |-> IF p \in S THEN f ELSE NoFile] :
        S \in (SUBSET AllPaths) \ {{}}, f \in IdProfiles}

IdInit ==
    /\ idDisks \in [1..2 -> IdDiskSet]
    /\ idOut = [i \in 1..2 |-> NotReturned]
    /\ FpIdle
    /\ WalkIdle
    /\ PoolIdle
    /\ RunIdle
    /\ OptIdle
    /\ RuleIdle
    /\ SelIdle
    /\ RowIdle
    /\ GovIdle
    /\ ScanIdle
    /\ WrIdle
    /\ StoreIdle

\* run i scans its working copy and parses what it scanned
IdParse(i) ==
    /\ ~idOut[i].returned
    /\ LET r == parseFiles(idDisks[i], collectGoFiles(idDisks[i], 0))
       IN  idOut' = [idOut EXCEPT
                       ![i] = [returned |-> TRUE, files |-> r.files,
                               nodes |-> r.nodes, parseErrors |-> r.parseErrors]]
    /\ UNCHANGED <<idDisks, fpVars, walkVars, poolVars, runVars, optVars, ruleVars, selVars, rowVars, govVars, scanVars, wrVars, storeVars>>

IdNext == \E i \in 1..2 : IdParse(i)

SpecId == IdInit /\ [][IdNext]_vars

\* an int64 that is not negative: eight bytes, the top bit clear
NonNegativeInt64(id) ==
    /\ Len(id) = 8
    /\ \A k \in 1..8 : id[k] \in 0..255
    /\ id[8] < 128

\* the file rows of both runs
IdFileRows == UNION {Range(idOut[i].files) : i \in 1..2}

\* C8: file_id is a non-negative 64-bit value that depends on the relative
\* path alone: in two runs the same path has the same file_id, whatever the
\* file's content, size and mod-time and whatever other files are scanned,
\* and the node rows of a file carry the file_id of its file row
FileIdOfPathOnly ==
    /\ \A f \in IdFileRows : NonNegativeInt64(f.ID)
    /\ \A f, g \in IdFileRows : f.Path = g.Path => f.ID = g.ID
    /\ \A i \in 1..2 : \A k \in 1..Len(idOut[i].nodes) :
          \E f \in Range(idOut[i].files) : f.ID = idOut[i].nodes[k].FileID

FileIdOfPathOnlyWitness ==
    /\ idOut[1].returned
    /\ idOut[2].returned
    /\ idDisks[1] # idDisks[2]
    /\ \E f \in Range(idOut[1].files), g \in Range(idOut[2].files) :
          /\ f.Path = PathB
          /\ g.Path = PathB
          /\ f.Bytes # g.Bytes
          /\ f.ParseError # g.ParseError
          /\ f.ID = g.ID
    /\ Len(idOut[1].files) # Len(idOut[2].files)

(***************************************************************************)
(* Options: normalizeAndValidateOptions and the subdir check of Run        *)
(***************************************************************************)

\* strings.TrimSpace, on ASCII: the white space at both ends dropped
TrimSpace(s) ==
    LET black == {k \in 1..Len(s) : s[k] \notin {9, 10, 11, 12, 13, 32}}
        fromEnd == {Len(s) - k : k \in black}
    IN  IF black = {} THEN <<>>
        ELSE SubSeq(s, CHOOSE k \in black : \A j \in black : k <= j,
                       Len(s) - (CHOOSE k \in fromEnd : \A j \in fromEnd : k <= j))

\* strings.ToLower, on ASCII
ToLower(s) == [k \in 1..Len(s) |-> IF s[k] \in 65..90 THEN s[k] + 32 ELSE s[k]]

\* strings.HasPrefix
HasPrefix(s, prefix) ==
    Len(prefix) <= Len(s) /\ SubSeq(s, 1, Len(prefix)) = prefix

\* "." and ".." as Go strings
Dot == <<46>>
DotDot == <<46, 46>>

\* the mode names "build", "query" and "both" as Go strings
ModeBytes ==
    [build |-> <<98, 117, 105, 108, 100>>, query |-> <<113, 117, 101, 114, 121>>,
     both |-> <<98, 111, 116, 104>>]

\* the elements of a path between its separators, the empty ones included
RECURSIVE Elements(_)
Elements(path) ==
    LET slashes == {k \in 1..Len(path) : path[k] = 47}
        first == CHOOSE k \in slashes : \A j \in slashes : k <= j
    IN  IF slashes = {} THEN <<path>>
        ELSE <<SubSeq(path, 1, first - 1)>> \o Elements(SubSeq(path, first + 1, Len(path)))

\* filepath.Clean's pass over the elements: empty and "." elements dropped,
\* ".." taking back the element before it, kept in front of a relative path
\* and dropped at the root of a rooted one
RECURSIVE CleanElements(_, _, _)
CleanElements(kept, elems, rooted) ==
    IF elems = <<>> THEN kept
    ELSE LET e == Head(elems)
             next == IF e = <<>> \/ e = Dot THEN kept
                     ELSE IF e # DotDot THEN Append(kept, e)
                     ELSE IF kept # <<>> /\ kept[Len(kept)] # DotDot
                     THEN SubSeq(kept, 1, Len(kept) - 1)
                     ELSE IF rooted THEN kept
                     ELSE Append(kept, DotDot)
         IN  CleanElements(next, Tail(elems), rooted)

\* elements joined by the separator
RECURSIVE JoinElements(_)
JoinElements(elems) ==
    IF elems = <<>> THEN <<>>
    ELSE IF Len(elems) = 1 THEN elems[1]
    ELSE elems[1] \o <<47>> \o JoinElements(Tail(elems))

\* filepath.Clean (Unix)
Clean(path) ==
    IF path = <<>> THEN Dot
    ELSE LET rooted == path[1] = 47
             body == JoinElements(CleanElements(<<>>, Elements(path), rooted))
         IN  IF rooted THEN <<47>> \o body
             ELSE IF body = <<>> THEN Dot ELSE body

\* filepath.Join(a, b) for non-empty a and b
Join(a, b) == Clean(a \o <<47>> \o b)

\* filepath.Rel(base, targ) for clean rooted paths: ".." for every element of
\* base past the common elements, then the rest of targ
Rel(base, targ) ==
    LET bs == CleanElements(<<>>, Elements(base), TRUE)
        ts == CleanElements(<<>>, Elements(targ), TRUE)
        shared == {k \in 0..Len(bs) : k <= Len(ts) /\ SubSeq(bs, 1, k) = SubSeq(ts, 1, k)}
        common == CHOOSE k \in shared : \A j \in shared : j <= k
        rel == JoinElements([k \in 1..(Len(bs) - common) |-> DotDot]
                              \o SubSeq(ts, common + 1, Len(ts)))
    IN  IF rel = <<>> THEN Dot ELSE rel

\* Run: rel == ".." only
escapesRootExact(rel) == rel = DotDot

\* Run: rel == ".." || strings.HasPrefix(rel, ".."+string(filepath.Separator))
escapesRoot(rel) == rel = DotDot \/ HasPrefix(rel, DotDot \o <<47>>)

\* type Options struct, as the caller fills it (RepoRoot and DuckDBPath set,
\* QueryBench false)
RawOptions(subdir, maxFiles, workers, mode, warmup, iters) ==
    [Subdir |-> subdir, MaxFiles |-> maxFiles, Workers |-> workers, Mode |-> mode,
     Reuse |-> TRUE, ForceRebuild |-> FALSE, KeepOutputFiles |-> TRUE,
     QueryWarmup |-> warmup, QueryIters |-> iters]

\* normalizeAndValidateOptions comparing the mode without lowercasing it
normalizeCaseSensitive(opts) ==
    LET coerced == [opts EXCEPT !.Workers = IF @ <= 0 THEN 1 ELSE @]
        trimmed == TrimSpace(opts.Mode)
        mode == IF trimmed = <<>> THEN ModeBytes.both ELSE trimmed
        cleaned == TrimSpace(Clean(opts.Subdir))
    IN  IF opts.MaxFiles < 0
        THEN [err |-> "max-files must be >= 0", opts |-> coerced]
        ELSE IF opts.QueryWarmup < 0
        THEN [err |-> "query-warmup must be >= 0", opts |-> coerced]
        ELSE IF opts.QueryIters <= 0
        THEN [err |-> "query-iters must be > 0", opts |-> coerced]
        ELSE IF mode \notin {ModeBytes.build, ModeBytes.query, ModeBytes.both}
        THEN [err |-> "invalid mode", opts |-> coerced]
        ELSE [err |-> "",
              opts |-> [coerced EXCEPT !.Mode = mode,
                                       !.Subdir = IF cleaned = Dot THEN <<>> ELSE cleaned]]

\* func normalizeAndValidateOptions(opts *Options) error: the error and the
\* options as the call leaves them
normalizeAndValidateOptions(opts) ==
    LET coerced == [opts EXCEPT !.Workers = IF @ <= 0 THEN 1 ELSE @]
        lowered == ToLower(TrimSpace(opts.Mode))
        mode == IF lowered = <<>> THEN ModeBytes.both ELSE lowered
        cleaned == TrimSpace(Clean(opts.Subdir))
    IN  IF opts.MaxFiles < 0
        THEN [err |-> "max-files must be >= 0", opts |-> coerced]
        ELSE IF opts.QueryWarmup < 0
        THEN [err |-> "query-warmup must be >= 0", opts |-> coerced]
        ELSE IF opts.QueryIters <= 0
        THEN [err |-> "query-iters must be > 0", opts |-> coerced]
        ELSE IF mode \notin {ModeBytes.build, ModeBytes.query, ModeBytes.both}
        THEN [err |-> "invalid mode", opts |-> coerced]
        ELSE [err |-> "",
              opts |-> [coerced EXCEPT !.Mode = mode,
                                       !.Subdir = IF cleaned = Dot THEN <<>> ELSE cleaned]]

\* the repo root after filepath.Abs: "/r"
RepoRoot == <<47, 114>>

\* func Run(ctx, opts) (Result, error) from its first line, on the working
\* copy fs under RepoRoot and the DB file db, nothing failing: the error,
\* the options as normalized, whether collectGoFiles was called, what the
\* rest of the call did and the DB file it left
RunWithOptions(raw, fs, dbFile) ==
    LET checked == normalizeAndValidateOptions(raw)
        opts == checked.opts
        rel == Rel(RepoRoot, Join(RepoRoot, opts.Subdir))
        inside(p) == rel = Dot \/ p = rel \/ HasPrefix(p, rel \o <<47>>)
        under == IF opts.Subdir = <<>> THEN fs
                 ELSE [p \in DOMAIN fs |-> IF inside(p) THEN fs[p] ELSE NoFile]
        rootThere == opts.Subdir = <<>> \/ rel = Dot \/ \E p \in DOMAIN fs : under[p].Exists
        metas == collectGoFiles(under, opts.MaxFiles)
        scan == [metas |-> metas, fingerprint |-> sourceFingerprint(metas)]
        mode == CASE opts.Mode = ModeBytes.build -> "build"
                  [] opts.Mode = ModeBytes.query -> "query"
                  [] OTHER -> "both"
        rest == Options(mode, opts.Reuse, opts.ForceRebuild, opts.KeepOutputFiles)
        decided == runDecide(scan, dbFile, rest, FALSE)
        rec == IF decided.returns THEN decided.rec
               ELSE runRebuild(scan, dbFile, rest, decided, parseFiles(fs, metas), "none")
        out(err, scanned, r, d) ==
            [err |-> err, opts |-> opts, scanned |-> scanned, rec |-> r, db |-> d]
    IN  IF checked.err # "" THEN out(checked.err, FALSE, NoRun, dbFile)
        ELSE IF opts.Subdir # <<>> /\ escapesRoot(rel)
        THEN out("subdir escapes repo root", FALSE, NoRun, dbFile)
        ELSE IF ~rootThere THEN out("walk repo", TRUE, NoRun, dbFile)
        ELSE out(rec.err, TRUE, rec, rec.db)

\* the longest subdir option tried
MaxSubdirLen == 4

\* a call of Run on the working copy a.go, a/b.go, b.go: every subdir of
\* the bytes . / a r and space with the other options valid, and every
\* combination of the other options (the mode a spelling with its case and
\* the white space around it, spells naming the mode it spells or "other")
\* with no subdir and with subdir ".."
OptInit ==
    /\ LET subdirs == UNION {[1..k -> {46, 47, 97, 114, 32}] : k \in 0..MaxSubdirLen}
           modes ==
               {[spells |-> m.spells, raw |-> l \o m.raw \o r] :
                   m \in {[spells |-> "", raw |-> <<>>],
                          [spells |-> "build", raw |-> ModeBytes.build],
                          [spells |-> "build", raw |-> <<66, 85, 73, 76, 68>>],
                          [spells |-> "query", raw |-> <<81, 117, 101, 114, 121>>],
                          [spells |-> "both", raw |-> ModeBytes.both],
                          [spells |-> "both", raw |-> <<66, 111, 84, 104>>],
                          [spells |-> "other", raw |-> ModeBytes.build \o <<115>>],
                          [spells |-> "other", raw |-> <<98, 111, 32, 116, 104>>],
                          [spells |-> "other", raw |-> <<120>>]},
                   l \in {<<>>, <<32>>}, r \in {<<>>, <<10>>}}
           fs == [p \in AllPaths |-> diskFile(10, 1, TRUE, "pkg")]
       IN  \E dbFile \in {NoDB, LegacyDB} :
              \/ \E subdir \in subdirs, m \in {"both", "query"} :
                    optIn = [opts |-> RawOptions(subdir, 0, 2, ModeBytes[m], 0, 1),
                             spells |-> m, fs |-> fs, db |-> dbFile]
              \/ \E subdir \in {<<>>, DotDot}, m \in modes, maxFiles \in {-1, 0, 2},
                    workers \in {-1, 0, 2}, warmup \in {-1, 0}, iters \in {-1, 0, 1} :
                    optIn = [opts |-> RawOptions(subdir, maxFiles, workers, m.raw,
                                                 warmup, iters),
                             spells |-> m.spells, fs |-> fs, db |-> dbFile]
    /\ optOut = <<>>
    /\ FpIdle
    /\ WalkIdle
    /\ PoolIdle
    /\ RunIdle
    /\ IdIdle
    /\ RuleIdle
    /\ SelIdle
    /\ RowIdle
    /\ GovIdle
    /\ ScanIdle
    /\ WrIdle
    /\ StoreIdle

\* the caller calls Run with the options; Run returns
OptRun ==
    /\ optOut = <<>>
    /\ optOut' = RunWithOptions(optIn.opts, optIn.fs, optIn.db)
    /\ UNCHANGED <<optIn, fpVars, walkVars, poolVars, runVars, idVars, ruleVars, selVars, rowVars, govVars, scanVars, wrVars, storeVars>>

OptNext == OptRun

SpecOpts == OptInit /\ [][OptNext]_vars

\* Run has been called and has returned
OptCalled == optOut # <<>>

\* the call did nothing past the checks: no scan, no parse, no write, the DB
\* file as it was
RejectedEarly ==
    /\ optOut.err # ""
    /\ ~optOut.scanned
    /\ optOut.rec = NoRun
    /\ optOut.db = optIn.db

\* the options are among those the claim lists as invalid
ListedInvalid ==
    \/ optIn.opts.MaxFiles < 0
    \/ optIn.opts.QueryWarmup < 0
    \/ optIn.opts.QueryIters <= 0
    \/ optIn.spells = "other"

\* the mode the options spell, the empty one standing for both
SpelledMode == IF optIn.spells = "" THEN "both" ELSE optIn.spells

\* the subdir option as normalized, and its path relative to the repo root
NormalizedSubdir == TrimSpace(Clean(optIn.opts.Subdir))
NormalizedRel == Rel(RepoRoot, Clean(RepoRoot \o <<47>> \o NormalizedSubdir))

\* the subdir option's relative path is ".." or begins with "../"
SubdirEscapes ==
    /\ NormalizedSubdir \notin {<<>>, Dot}
    /\ \/ NormalizedRel = DotDot
       \/ Len(NormalizedRel) >= 3 /\ SubSeq(NormalizedRel, 1, 3) = <<46, 46, 47>>

\* the directory the subdir option names is neither the repo root nor below it
SubdirOutsideRoot ==
    LET target == Clean(RepoRoot \o <<47>> \o NormalizedSubdir)
        below == Len(target) > Len(RepoRoot) /\
                 SubSeq(target, 1, Len(RepoRoot) + 1) = RepoRoot \o <<47>>
    IN  NormalizedSubdir \notin {<<>>, Dot} /\ target # RepoRoot /\ ~below

\* C12: for every subdir option whose normalized path relative to the repo
\* root is ".." or begins with "../" (the directory it names lies outside the
\* root), Run returns an error, the subdir-escapes one when the other options
\* are valid, and scans, parses and writes nothing
SubdirEscapeRejected ==
    OptCalled =>
        /\ SubdirEscapes <=> SubdirOutsideRoot
        /\ SubdirEscapes => RejectedEarly
        /\ (SubdirEscapes /\ ~ListedInvalid) => optOut.err = "subdir escapes repo root"
        /\ optOut.err = "subdir escapes repo root" => SubdirEscapes

\* C12 witness: a subdir leading to a sibling of the repo root is rejected
\* with the DB file in place
SubdirEscapeRejectedWitness ==
    /\ OptCalled
    /\ SubdirEscapes
    /\ Len(NormalizedRel) > 2
    /\ optIn.db.Exists
    /\ optOut.err = "subdir escapes repo root"
    /\ RejectedEarly

\* C19: options with max_files < 0, query_warmup < 0, query_iters <= 0 or a
\* mode that, trimmed and lowercased, is not empty, build, query or both are
\* rejected before the scan and before the DB is touched; all other options
\* pass the validation, an empty mode running as both and workers <= 0 as 1
OptionsValidatedFirst ==
    OptCalled =>
        /\ ListedInvalid => RejectedEarly
        /\ ~ListedInvalid =>
              /\ optOut.opts.Workers =
                    IF optIn.opts.Workers <= 0 THEN 1 ELSE optIn.opts.Workers
              /\ optOut.opts.Mode =
                    CASE SpelledMode = "build" -> ModeBytes.build
                      [] SpelledMode = "query" -> ModeBytes.query
                      [] OTHER -> ModeBytes.both
              /\ optIn.opts.Subdir = <<>> =>
                    /\ optOut.err = ""
                    /\ optOut.scanned
                    /\ optOut.rec.opts.Mode = SpelledMode

\* C19 witness: a mode of white space only and workers <= 0 ran as mode both
OptionsValidatedFirstWitness ==
    /\ OptCalled
    /\ ~ListedInvalid
    /\ optIn.spells = ""
    /\ optIn.opts.Mode # <<>>
    /\ optIn.opts.Workers <= 0
    /\ optOut.err = ""
    /\ optOut.opts.Workers = 1
    /\ optOut.rec.opts.Mode = "both"

(***************************************************************************)
(* Governance rules: ValidateRule                                          *)
(***************************************************************************)

\* type Rule struct { ID; Category; Severity; Description; QuerySQL }
Rule(id, category, severity, description, querySQL) ==
    [ID |-> id, Category |-> category, Severity |-> severity,
     Description |-> description, QuerySQL |-> querySQL]

\* "critical", "error", "warning" and "info" as Go strings
SeverityBytes ==
    [critical |-> <<99, 114, 105, 116, 105, 99, 97, 108>>,
     error |-> <<101, 114, 114, 111, 114>>,
     warning |-> <<119, 97, 114, 110, 105, 110, 103>>,
     info |-> <<105, 110, 102, 111>>]

\* ValidateRule comparing the fields with "" as they come, untrimmed
ValidateRuleUntrimmed(rule) ==
    LET severity == ToLower(TrimSpace(rule.Severity))
    IN  IF rule.ID = <<>> THEN "rule id is required"
        ELSE IF rule.Category = <<>> THEN "category is required"
        ELSE IF rule.Description = <<>> THEN "description is required"
        ELSE IF rule.QuerySQL = <<>> THEN "query_sql is required"
        ELSE IF severity \in {SeverityBytes.critical, SeverityBytes.error,
                              SeverityBytes.warning, SeverityBytes.info}
        THEN ""
        ELSE "invalid severity"

\* func ValidateRule(rule Rule) error: "" for nil, else which error
ValidateRule(rule) ==
    LET severity == ToLower(TrimSpace(rule.Severity))
    IN  IF TrimSpace(rule.ID) = <<>> THEN "rule id is required"
        ELSE IF TrimSpace(rule.Category) = <<>> THEN "category is required"
        ELSE IF TrimSpace(rule.Description) = <<>> THEN "description is required"
        ELSE IF TrimSpace(rule.QuerySQL) = <<>> THEN "query_sql is required"
        ELSE IF severity \in {SeverityBytes.critical, SeverityBytes.error,
                              SeverityBytes.warning, SeverityBytes.info}
        THEN ""
        ELSE "invalid severity"

\* a rule handed to ValidateRule: each text field blank (empty or white
\* space only) or a text with or without white space around and inside it,
\* the severity a spelling of one of the four names or of none ("other");
\* blank and spells record how the rule was made
RuleInit ==
    /\ LET texts == {[blank |-> TRUE, raw |-> <<>>],
                     [blank |-> TRUE, raw |-> <<32>>],
                     [blank |-> TRUE, raw |-> <<9, 10>>],
                     [blank |-> FALSE, raw |-> <<82, 49>>],
                     [blank |-> FALSE, raw |-> <<32, 83, 32, 49, 10>>]}
           severities ==
               {[spells |-> "critical", raw |-> SeverityBytes.critical],
                [spells |-> "error", raw |-> <<32, 69, 114, 114, 111, 114, 10>>],
                [spells |-> "warning", raw |-> <<87, 65, 82, 78, 73, 78, 71>>],
                [spells |-> "info", raw |-> SeverityBytes.info \o <<32>>],
                [spells |-> "other", raw |-> <<110, 111, 112, 101>>],
                [spells |-> "other", raw |-> <<>>],
                [spells |-> "other", raw |-> <<32>>],
                [spells |-> "other", raw |-> <<119, 97, 114, 110>>],
                [spells |-> "other", raw |-> <<105, 110, 32, 102, 111>>],
                [spells |-> "other", raw |-> SeverityBytes.error \o <<115>>]}
       IN  \E id \in texts, category \in texts, description \in texts,
              querySQL \in texts, severity \in severities :
              ruleIn = [rule |-> Rule(id.raw, category.raw, severity.raw,
                                      description.raw, querySQL.raw),
                        blank |-> id.blank \/ category.blank \/ description.blank
                                     \/ querySQL.blank,
                        spells |-> severity.spells]
    /\ ruleOut = <<>>
    /\ FpIdle
    /\ WalkIdle
    /\ PoolIdle
    /\ RunIdle
    /\ IdIdle
    /\ OptIdle
    /\ SelIdle
    /\ RowIdle
    /\ GovIdle
    /\ ScanIdle
    /\ WrIdle
    /\ StoreIdle

\* the caller calls ValidateRule(rule)
RuleValidate ==
    /\ ruleOut = <<>>
    /\ ruleOut' = [err |-> ValidateRule(ruleIn.rule)]
    /\ UNCHANGED <<ruleIn, fpVars, walkVars, poolVars, runVars, idVars, optVars, selVars, rowVars, govVars, scanVars, wrVars, storeVars>>

RuleNext == RuleValidate

SpecRule == RuleInit /\ [][RuleNext]_vars

\* C20: ValidateRule accepts a rule exactly when rule_id, category,
\* description and query_sql are non-empty after trimming and the trimmed,
\* lowercased severity is critical, error, warning or info; every other rule
\* gets a validation error
RuleAcceptedIffWellFormed ==
    ruleOut # <<>> =>
        (ruleOut.err = "" <=> (~ruleIn.blank /\ ruleIn.spells # "other"))

\* C20 witness: a rule with white space around its id and a severity spelled
\* with a capital and white space around it is accepted
RuleAcceptedIffWellFormedWitness ==
    /\ ruleOut # <<>>
    /\ ruleOut.err = ""
    /\ ruleIn.spells = "error"
    /\ ruleIn.rule.Severity # SeverityBytes.error
    /\ ruleIn.rule.ID[1] = 32

\* ---------------------------------------------------------------------------
\* Id lists of the command line and the helper query registry
\* ---------------------------------------------------------------------------

\* the separator of an id list
Comma == 44

\* strings.Split(s, sep) for a one-byte separator: the pieces between the
\* separators, empty pieces included
RECURSIVE Split(_, _)
Split(s, sep) ==
    IF \A k \in 1..Len(s) : s[k] # sep
    THEN <<s>>
    ELSE LET at == CHOOSE k \in 1..Len(s) :
                       s[k] = sep /\ \A m \in 1..(k - 1) : s[m] # sep
         IN <<SubSeq(s, 1, at - 1)>> \o Split(SubSeq(s, at + 1, Len(s)), sep)

\* the loop body of parseIDs with the seen check left out
RECURSIVE appendPartsKeepingRepeats(_, _)
appendPartsKeepingRepeats(out, parts) ==
    IF parts = <<>>
    THEN out
    ELSE LET id == TrimSpace(Head(parts))
         IN appendPartsKeepingRepeats(IF id = <<>> THEN out ELSE Append(out, id),
                                      Tail(parts))

\* the loop over the parts of one argument, in parseIDs and in parseRuleIDs:
\* trim the part, skip it when empty or seen, else append it
RECURSIVE appendParts(_, _)
appendParts(out, parts) ==
    IF parts = <<>>
    THEN out
    ELSE LET id == TrimSpace(Head(parts))
         IN appendParts(IF id = <<>> \/ id \in Range(out) THEN out ELSE Append(out, id),
                        Tail(parts))

RECURSIVE parseIDsFrom(_, _)
parseIDsFrom(out, args) ==
    IF args = <<>>
    THEN out
    ELSE parseIDsFrom(appendParts(out, Split(Head(args), Comma)), Tail(args))

parseIDs(args) == parseIDsFrom(<<>>, args)

\* a nil result is the empty list
parseRuleIDs(csv) ==
    IF TrimSpace(csv) = <<>> THEN <<>> ELSE appendParts(<<>>, Split(csv, Comma))

\* three of the twenty helper queries, in registry order: the first one, one
\* of the middle and the last one; a query is known by its ID
DefaultQueries ==
    << [ID |-> <<65, 83, 84, 95, 75, 73, 78, 68, 95, 68, 73, 83, 84, 82, 73, 66, 85, 84, 73, 79, 78>>],
       [ID |-> <<80, 65, 78, 73, 67, 95, 85, 83, 65, 71, 69>>],
       [ID |-> <<80, 65, 82, 83, 69, 95, 69, 82, 82, 79, 82, 83>>] >>

\* the query of the registry with this ID, <<>> when there is none
byID(id) ==
    IF \E k \in 1..Len(DefaultQueries) : DefaultQueries[k].ID = id
    THEN <<DefaultQueries[CHOOSE k \in 1..Len(DefaultQueries) : DefaultQueries[k].ID = id]>>
    ELSE <<>>

\* the loop of SelectQueries over ids: the first unknown id ends it
RECURSIVE selectFrom(_, _)
selectFrom(out, ids) ==
    IF ids = <<>>
    THEN [queries |-> out, err |-> ""]
    ELSE LET id == TrimSpace(Head(ids))
         IN IF id = <<>>
            THEN selectFrom(out, Tail(ids))
            ELSE IF byID(id) = <<>>
                 THEN [queries |-> <<>>, err |-> "unknown exploration query id"]
                 ELSE selectFrom(out \o byID(id), Tail(ids))

\* SelectQueries without the fallback for an empty selection
SelectQueriesNoFallback(ids) ==
    IF ids = <<>>
    THEN [queries |-> DefaultQueries, err |-> ""]
    ELSE selectFrom(<<>>, ids)

SelectQueries(ids) ==
    IF ids = <<>>
    THEN [queries |-> DefaultQueries, err |-> ""]
    ELSE LET sel == selectFrom(<<>>, ids)
         IN IF sel.err = "" /\ sel.queries = <<>>
            THEN [queries |-> DefaultQueries, err |-> ""]
            ELSE sel

MaxArgLen == 3
MaxCsvLen == 5
MaxIds == 3

\* the strings of at most n bytes over the letters A and B, the comma and
\* the space
RECURSIVE ArgsUpTo(_)
ArgsUpTo(n) ==
    IF n = 0
    THEN {<<>>}
    ELSE LET shorter == ArgsUpTo(n - 1)
         IN shorter \cup {Append(s, c) : s \in shorter, c \in {65, 66, Comma, 32}}

\* the ids handed to SelectQueries, each with what it spells: the "first",
\* "middle" or "last" entry of the registry, "blank" or "unknown"
SpelledIds ==
    { [id |-> <<>>, spells |-> "blank"],
      [id |-> <<32, 9>>, spells |-> "blank"],
      [id |-> DefaultQueries[1].ID, spells |-> "first"],
      [id |-> <<32>> \o DefaultQueries[2].ID \o <<10>>, spells |-> "middle"],
      [id |-> <<9>> \o DefaultQueries[3].ID, spells |-> "last"],
      [id |-> <<68, 79, 69, 83, 95, 78, 79, 84, 95, 69, 88, 73, 83, 84>>, spells |-> "unknown"],
      [id |-> <<112, 97, 110, 105, 99, 95, 117, 115, 97, 103, 101>>, spells |-> "unknown"] }

RECURSIVE SpelledListsUpTo(_)
SpelledListsUpTo(n) ==
    IF n = 0
    THEN {<<>>}
    ELSE LET shorter == SpelledListsUpTo(n - 1)
         IN shorter \cup {Append(l, e) : l \in shorter, e \in SpelledIds}

SelInit ==
    /\ selIn \in
          {[fn |-> "parseIDs", args |-> a, spells |-> <<>>] :
               a \in {<<>>} \cup {<<x>> : x \in ArgsUpTo(MaxArgLen)}
                            \cup {<<x, y>> : x \in ArgsUpTo(MaxArgLen), y \in ArgsUpTo(MaxArgLen - 1)}}
          \cup {[fn |-> "parseRuleIDs", args |-> <<csv>>, spells |-> <<>>] :
                    csv \in ArgsUpTo(MaxCsvLen)}
          \cup {[fn |-> "SelectQueries",
                 args |-> [k \in 1..Len(l) |-> l[k].id],
                 spells |-> [k \in 1..Len(l) |-> l[k].spells]] :
                    l \in SpelledListsUpTo(MaxIds)}
    /\ selOut = <<>>
    /\ FpIdle
    /\ WalkIdle
    /\ PoolIdle
    /\ RunIdle
    /\ IdIdle
    /\ OptIdle
    /\ RuleIdle
    /\ RowIdle
    /\ GovIdle
    /\ ScanIdle
    /\ WrIdle
    /\ StoreIdle

\* the helper command calls parseIDs(args)
CallParseIDs ==
    /\ selOut = <<>>
    /\ selIn.fn = "parseIDs"
    /\ selOut' = [ids |-> parseIDs(selIn.args)]
    /\ UNCHANGED <<selIn, fpVars, walkVars, poolVars, runVars, idVars, optVars, ruleVars, rowVars, govVars, scanVars, wrVars, storeVars>>

\* the governance command calls parseRuleIDs(csv)
CallParseRuleIDs ==
    /\ selOut = <<>>
    /\ selIn.fn = "parseRuleIDs"
    /\ selOut' = [ids |-> parseRuleIDs(selIn.args[1])]
    /\ UNCHANGED <<selIn, fpVars, walkVars, poolVars, runVars, idVars, optVars, ruleVars, rowVars, govVars, scanVars, wrVars, storeVars>>

\* the helper runner calls SelectQueries(ids)
CallSelectQueries ==
    /\ selOut = <<>>
    /\ selIn.fn = "SelectQueries"
    /\ selOut' = SelectQueries(selIn.args)
    /\ UNCHANGED <<selIn, fpVars, walkVars, poolVars, runVars, idVars, optVars, ruleVars, rowVars, govVars, scanVars, wrVars, storeVars>>

SelNext ==
    \/ CallParseIDs
    \/ CallParseRuleIDs
    \/ CallSelectQueries

SpecSel == SelInit /\ [][SelNext]_vars

\* the white space that a trim removes
WhiteBytes == {9, 10, 11, 12, 13, 32}

\* id stands at position a of argument n, between two commas or ends of the
\* argument, with nothing but white space around it
OccursAt(id, n, a) ==
    LET arg == selIn.args[n]
        b == a + Len(id) - 1
    IN /\ id # <<>>
       /\ b <= Len(arg)
       /\ SubSeq(arg, a, b) = id
       /\ id[1] \notin WhiteBytes
       /\ id[Len(id)] \notin WhiteBytes
       /\ \A k \in 1..Len(id) : id[k] # Comma
       /\ \E i \in 1..a, j \in b..Len(arg) :
             /\ i = 1 \/ arg[i - 1] = Comma
             /\ j = Len(arg) \/ arg[j + 1] = Comma
             /\ \A k \in i..(a - 1) : arg[k] \in WhiteBytes
             /\ \A k \in (b + 1)..j : arg[k] \in WhiteBytes

\* the places of the arguments where an id can start
Places == {pl \in (1..Len(selIn.args)) \X (1..MaxCsvLen + 1) : pl[2] <= Len(selIn.args[pl[1]])}

PlaceBefore(p, q) == p[1] < q[1] \/ (p[1] = q[1] /\ p[2] < q[2])

ParsedIds == selOut # <<>> /\ selIn.fn \in {"parseIDs", "parseRuleIDs"}

\* C27: parseIDs and parseRuleIDs split every argument on commas, trim each
\* piece, drop the empty ones and return each distinct id exactly once, in
\* first-seen order; the output holds no empty, padded or repeated id
ParsedIdsDistinctFirstSeen ==
    ParsedIds =>
        LET out == selOut.ids
        IN /\ \A k \in 1..Len(out) :
                 /\ out[k] # <<>>
                 /\ out[k][1] \notin WhiteBytes
                 /\ out[k][Len(out[k])] \notin WhiteBytes
                 /\ \E pl \in Places : OccursAt(out[k], pl[1], pl[2])
           /\ \A k, m \in 1..Len(out) : k # m => out[k] # out[m]
           /\ \A pl \in Places : \A b \in pl[2]..Len(selIn.args[pl[1]]) :
                 LET id == SubSeq(selIn.args[pl[1]], pl[2], b)
                 IN OccursAt(id, pl[1], pl[2]) => id \in Range(out)
           /\ \A k, m \in 1..Len(out) : k < m =>
                 \E p \in Places :
                     /\ OccursAt(out[k], p[1], p[2])
                     /\ \A q \in Places : OccursAt(out[m], q[1], q[2]) => PlaceBefore(p, q)

\* C27 witness: parseIDs("B,A", " B") is [B, A]: the padded second B is the
\* B already seen
ParsedIdsDistinctFirstSeenWitness ==
    /\ ParsedIds
    /\ selIn.fn = "parseIDs"
    /\ selIn.args = << <<66, 44, 65>>, <<32, 66>> >>
    /\ selOut.ids = << <<66>>, <<65>> >>

Selected == selOut # <<>> /\ selIn.fn = "SelectQueries"

\* the registry entries that the non-blank ids spell, in the order of the ids
RECURSIVE NamedQueries(_)
NamedQueries(spells) ==
    IF spells = <<>>
    THEN <<>>
    ELSE IF Head(spells) = "blank"
         THEN NamedQueries(Tail(spells))
         ELSE <<DefaultQueries[CASE Head(spells) = "first" -> 1
                                     [] Head(spells) = "middle" -> 2
                                     [] Head(spells) = "last" -> 3]>>
                  \o NamedQueries(Tail(spells))

AllBlank == \A k \in 1..Len(selIn.spells) : selIn.spells[k] = "blank"

SomeUnknown == \E k \in 1..Len(selIn.spells) : selIn.spells[k] = "unknown"

\* C26 as stated: SelectQueries returns the full list when ids is empty;
\* otherwise exactly the queries of the trimmed non-empty ids, and an
\* unknown-id error with no queries as soon as one of them is not registered
SelectsFullOnlyWhenEmpty ==
    Selected =>
        IF selIn.args = <<>>
        THEN selOut.err = "" /\ selOut.queries = DefaultQueries
        ELSE IF SomeUnknown
             THEN selOut.err # "" /\ selOut.queries = <<>>
             ELSE selOut.err = "" /\ selOut.queries = NamedQueries(selIn.spells)

\* C26: SelectQueries returns the full list when ids is empty or every id is
\* blank after trimming; otherwise exactly the queries of the trimmed
\* non-empty ids, in the order of the ids, and an unknown-id error with no
\* queries as soon as one of them is not registered
SelectsFullWhenNothingNamed ==
    Selected =>
        IF AllBlank
        THEN selOut.err = "" /\ selOut.queries = DefaultQueries
        ELSE IF SomeUnknown
             THEN selOut.err # "" /\ selOut.queries = <<>>
             ELSE selOut.err = "" /\ selOut.queries = NamedQueries(selIn.spells)

\* C26 witness: two blank ids select the full list
SelectsFullWhenNothingNamedWitness ==
    /\ Selected
    /\ Len(selIn.args) = 2
    /\ AllBlank
    /\ selOut.queries = DefaultQueries

\* ---------------------------------------------------------------------------
\* Governance: the values of a result row and the Violation made of them
\* ---------------------------------------------------------------------------

\* a value that rows.Scan stores into an `any`: its Go type t, its bytes s
\* when it is a string or a []byte, its number n when it is an integer, and
\* its number of tenths n when it is a float64
Nil == [t |-> "nil", s |-> <<>>, n |-> 0]
StringValue(s) == [t |-> "string", s |-> s, n |-> 0]
BytesValue(s) == [t |-> "[]byte", s |-> s, n |-> 0]
NumberValue(t, n) == [t |-> t, s |-> <<>>, n |-> n]

\* func normalize(v any) any
normalize(v) == IF v.t = "[]byte" THEN StringValue(v.s) ELSE v

\* fmt.Sprint of a number of a Go numeric type (a float64 of n tenths, n >= 0)
Sprint(v) ==
    IF v.t = "float64" /\ v.n % 10 # 0
    THEN FormatInt(v.n \div 10) \o <<46, 48 + (v.n % 10)>>
    ELSE IF v.t = "float64" THEN FormatInt(v.n \div 10) ELSE FormatInt(v.n)

\* func asString(v any) string
asString(v) ==
    IF v.t = "nil" THEN <<>>
    ELSE IF v.t \in {"string", "[]byte"} THEN v.s
    ELSE Sprint(v)

\* the number that the decimal digits s spell
RECURSIVE DigitsValue(_)
DigitsValue(s) ==
    IF s = <<>> THEN 0 ELSE 10 * DigitsValue(SubSeq(s, 1, Len(s) - 1)) + (s[Len(s)] - 48)

\* i, _ := strconv.Atoi(s): an optional sign and decimal digits, 0 on a
\* syntax error
Atoi(s) ==
    LET signed == s # <<>> /\ s[1] \in {43, 45}
        digits == IF signed THEN Tail(s) ELSE s
    IN IF digits = <<>> \/ \E k \in 1..Len(digits) : digits[k] \notin 48..57
       THEN 0
       ELSE IF signed /\ s[1] = 45 THEN 0 - DigitsValue(digits) ELSE DigitsValue(digits)

\* func asInt(v any) int
asInt(v) ==
    IF v.t = "nil" THEN 0
    ELSE IF v.t \in {"int", "int64", "int32"} THEN v.n
    ELSE IF v.t = "float64" THEN v.n \div 10
    ELSE IF v.t = "string" THEN Atoi(TrimSpace(v.s))
    ELSE 0

\* raw := make(map[string]any); for i, col := range cols { raw[col] =
\* normalize(vals[i]) }: a later column of the same name overwrites
rawValues(cols, vals) ==
    [col \in Range(cols) |->
        normalize(vals[CHOOSE i \in 1..Len(cols) :
                           cols[i] = col /\ \A j \in (i + 1)..Len(cols) : cols[j] # col])]

\* raw[col]: the zero value nil for a missing key
rawAt(raw, col) == IF col \in DOMAIN raw THEN raw[col] ELSE Nil

\* the Violation that Run appends for one row of a rule's result
rowViolation(rule, cols, vals) ==
    LET raw == rawValues(cols, vals)
    IN [RuleID |-> rule.ID,
        Category |-> rule.Category,
        Severity |-> rule.Severity,
        FilePath |-> asString(rawAt(raw, "file_path")),
        Symbol |-> asString(rawAt(raw, "symbol")),
        Detail |-> asString(rawAt(raw, "detail")),
        Line |-> asInt(rawAt(raw, "line")),
        RawValues |-> raw]

MaxCols == 2

\* the cells of a result row: a column name and a value, with the text that
\* the value spells and, when it is a whole number or spells one, the number
Cells ==
    LET cell(col, val, text, whole, num) ==
            [col |-> col, val |-> val, text |-> text, whole |-> whole, num |-> num]
        aGo == <<97, 46, 103, 111>>
    IN { cell("file_path", StringValue(aGo), aGo, FALSE, 0),
         cell("file_path", BytesValue(aGo), aGo, FALSE, 0),
         cell("file_path", Nil, <<>>, FALSE, 0),
         cell("File_Path", StringValue(<<98>>), <<98>>, FALSE, 0),
         cell("symbol", StringValue(<<102>>), <<102>>, FALSE, 0),
         cell("symbol", NumberValue("int64", 3), <<51>>, TRUE, 3),
         cell("detail", StringValue(<<100, 32>>), <<100, 32>>, FALSE, 0),
         cell("detail", Nil, <<>>, FALSE, 0),
         cell("line", NumberValue("int64", 7), <<55>>, TRUE, 7),
         cell("line", NumberValue("int32", 8), <<56>>, TRUE, 8),
         cell("line", NumberValue("int", 9), <<57>>, TRUE, 9),
         cell("line", NumberValue("int16", 5), <<53>>, TRUE, 5),
         cell("line", NumberValue("float64", 60), <<54>>, TRUE, 6),
         cell("line", StringValue(<<32, 49, 50, 32>>), <<32, 49, 50, 32>>, TRUE, 12),
         cell("line", StringValue(<<120>>), <<120>>, FALSE, 0),
         cell("line", Nil, <<>>, FALSE, 0),
         cell("n", NumberValue("int64", 1), <<49>>, TRUE, 1) }

RECURSIVE RowsUpTo(_)
RowsUpTo(n) ==
    IF n = 0
    THEN {<<>>}
    ELSE LET shorter == RowsUpTo(n - 1)
         IN shorter \cup {Append(r, c) : r \in shorter, c \in Cells}

RowInit ==
    /\ rowIn \in {[rule |-> [ID |-> <<82, 49>>, Category |-> <<99>>,
                            Severity |-> SeverityBytes.error],
                   cells |-> r] : r \in RowsUpTo(MaxCols)}
    /\ rowOut = <<>>
    /\ FpIdle
    /\ WalkIdle
    /\ PoolIdle
    /\ RunIdle
    /\ IdIdle
    /\ OptIdle
    /\ RuleIdle
    /\ SelIdle
    /\ GovIdle
    /\ ScanIdle
    /\ WrIdle
    /\ StoreIdle

\* Run scans one row of the rule's result and appends its Violation
RowScan ==
    /\ rowOut = <<>>
    /\ rowOut' = [violation |->
                     rowViolation(rowIn.rule,
                                  [k \in 1..Len(rowIn.cells) |-> rowIn.cells[k].col],
                                  [k \in 1..Len(rowIn.cells) |-> rowIn.cells[k].val])]
    /\ UNCHANGED <<rowIn, fpVars, walkVars, poolVars, runVars, idVars, optVars, ruleVars, selVars, govVars, scanVars, wrVars, storeVars>>

RowNext == RowScan

SpecRow == RowInit /\ [][RowNext]_vars

\* the cells of the row in the column of this name that are not NULL
CellsNamed(name) ==
    {k \in 1..Len(rowIn.cells) : rowIn.cells[k].col = name /\ rowIn.cells[k].val # Nil}

\* the field is the text of the column of this name, "" without one
TextTakenFrom(field, name) ==
    IF CellsNamed(name) = {}
    THEN field = <<>>
    ELSE \E k \in CellsNamed(name) : field = rowIn.cells[k].text

\* C23: each result row gives one violation whose file_path, symbol, detail
\* and line are taken from the columns with exactly these names, "" and 0
\* when the column is missing or NULL, and whose raw_values holds every
\* column of the row with its value
RowFieldsTakenFromColumns ==
    rowOut # <<>> =>
        LET v == rowOut.violation
        IN /\ TextTakenFrom(v.FilePath, "file_path")
           /\ TextTakenFrom(v.Symbol, "symbol")
           /\ TextTakenFrom(v.Detail, "detail")
           /\ IF CellsNamed("line") = {}
              THEN v.Line = 0
              ELSE \E k \in CellsNamed("line") :
                       rowIn.cells[k].whole => v.Line = rowIn.cells[k].num
           /\ \A k \in 1..Len(rowIn.cells) :
                 /\ rowIn.cells[k].col \in DOMAIN v.RawValues
                 /\ v.RawValues[rowIn.cells[k].col] = normalize(rowIn.cells[k].val)

\* ---------------------------------------------------------------------------
\* Governance: the rules table and the Runner
\* ---------------------------------------------------------------------------

\* func defaultRules() []Rule, the query text between its first and its last
\* line break shortened to SELECT
defaultRules ==
    << [ID |-> <<69, 88, 65, 77, 80, 76, 69, 95, 73, 77, 80, 79, 82, 84, 83, 95,
                 73, 78, 84, 69, 82, 78, 65, 76, 95, 79, 78, 76, 89>>,
        Category |-> <<101, 120, 97, 109, 112, 108, 101>>,
        Severity |-> SeverityBytes.warning,
        Description |-> <<69, 120, 97, 109, 112, 108, 101, 32, 114, 117, 108, 101>>,
        QuerySQL |-> <<10, 83, 69, 76, 69, 67, 84, 10>>,
        Enabled |-> FALSE] >>

\* the rule stored as the caller gave it
trimRuleAsGiven(rule) == rule

\* the rule as UpsertRules stores it: text fields trimmed, severity lowercased
trimRule(rule) ==
    [ID |-> TrimSpace(rule.ID),
     Category |-> TrimSpace(rule.Category),
     Severity |-> ToLower(TrimSpace(rule.Severity)),
     Description |-> TrimSpace(rule.Description),
     QuerySQL |-> TrimSpace(rule.QuerySQL),
     Enabled |-> rule.Enabled]

\* the table row of a rule written at time now
ruleRow(rule, now) ==
    [rule_id |-> rule.ID, category |-> rule.Category, severity |-> rule.Severity,
     description |-> rule.Description, query_sql |-> rule.QuerySQL,
     enabled |-> rule.Enabled, updated_unix |-> now]

\* INSERT INTO governance_rules without the ON CONFLICT clause
upsertRowAlwaysInsert(table, row) == Append(table, row)

\* INSERT INTO governance_rules ... ON CONFLICT(rule_id) DO UPDATE SET every
\* other column
upsertRow(table, row) ==
    IF \E k \in 1..Len(table) : table[k].rule_id = row.rule_id
    THEN [k \in 1..Len(table) |-> IF table[k].rule_id = row.rule_id THEN row ELSE table[k]]
    ELSE Append(table, row)

\* the loop executing the statement before it validates the rule
RECURSIVE upsertFromValidatingAfter(_, _, _, _)
upsertFromValidatingAfter(table, rules, now, failAt) ==
    IF rules = <<>>
    THEN [table |-> table, err |-> ""]
    ELSE LET rule == trimRule(Head(rules))
         IN IF failAt = 1
            THEN [table |-> table, err |-> "upsert rule"]
            ELSE IF ValidateRule(rule) # ""
            THEN [table |-> upsertRow(table, ruleRow(rule, now)), err |-> ValidateRule(rule)]
            ELSE upsertFromValidatingAfter(upsertRow(table, ruleRow(rule, now)),
                                           Tail(rules), now,
                                           IF failAt = 0 THEN 0 ELSE failAt - 1)

\* the loop of UpsertRules: the first invalid rule, or the first
\* stmt.ExecContext that fails, ends it; the rules before it stay written.
\* failAt: which of the remaining rules has its ExecContext fail (0: none)
RECURSIVE upsertFrom(_, _, _, _)
upsertFrom(table, rules, now, failAt) ==
    IF rules = <<>>
    THEN [table |-> table, err |-> ""]
    ELSE LET rule == trimRule(Head(rules))
         IN IF ValidateRule(rule) # ""
            THEN [table |-> table, err |-> ValidateRule(rule)]
            ELSE IF failAt = 1
            THEN [table |-> table, err |-> "upsert rule"]
            ELSE upsertFrom(upsertRow(table, ruleRow(rule, now)), Tail(rules), now,
                            IF failAt = 0 THEN 0 ELSE failAt - 1)

\* func (r *Runner) UpsertRules(ctx, rules) error, with a database that opens,
\* has or creates the table and prepares the statement
UpsertRules(table, rules, now, failAt) ==
    IF rules = <<>> THEN [table |-> table, err |-> ""]
    ELSE upsertFrom(table, rules, now, failAt)

\* EnsureDefaultRules that writes nothing
EnsureDefaultRulesSkipped(table, now) == [table |-> table, err |-> ""]

\* func (r *Runner) EnsureDefaultRules(ctx) error, no statement failing
EnsureDefaultRules(table, now) == UpsertRules(table, defaultRules, now, 0)

\* the Rule that ListRules scans from a row
scanRule(row) ==
    [ID |-> row.rule_id, Category |-> row.category, Severity |-> row.severity,
     Description |-> row.description, QuerySQL |-> row.query_sql, Enabled |-> row.enabled]

\* SELECT ... FROM governance_rules without ORDER BY: the rows as stored
selectRulesAsStored(table) == [k \in 1..Len(table) |-> scanRule(table[k])]

\* SELECT ... FROM governance_rules ORDER BY rule_id
RECURSIVE selectRules(_)
selectRules(table) ==
    IF table = <<>>
    THEN <<>>
    ELSE LET first == CHOOSE k \in 1..Len(table) :
                          /\ \A j \in 1..Len(table) : ~StrLess(table[j].rule_id, table[k].rule_id)
                          /\ \A j \in 1..(k - 1) : table[j].rule_id # table[k].rule_id
         IN <<scanRule(table[first])>>
            \o selectRules(SubSeq(table, 1, first - 1) \o SubSeq(table, first + 1, Len(table)))

\* func (r *Runner) ListRules(ctx) ([]Rule, error)
ListRules(table, now) ==
    LET ensured == EnsureDefaultRules(table, now)
    IN IF ensured.err # ""
       THEN [table |-> ensured.table, rules |-> <<>>, err |-> ensured.err]
       ELSE [table |-> ensured.table, rules |-> selectRules(ensured.table), err |-> ""]

\* filterRules that walks the ids and collects the rules of each in turn
filterRulesInIdOrder(rules, ids) ==
    IF ids = <<>>
    THEN rules
    ELSE LET picked[k \in 0..Len(ids)] ==
                 IF k = 0 THEN <<>>
                 ELSE picked[k - 1] \o SelectSeq(rules, LAMBDA rule : rule.ID = ids[k])
         IN  picked[Len(ids)]

\* filterRules that keeps every rule
filterRulesIgnoringIds(rules, ids) == rules

\* func filterRules(rules []Rule, ids []string) []Rule
filterRules(rules, ids) ==
    IF ids = <<>>
    THEN rules
    ELSE LET selected(rule) == rule.ID \in Range(ids) IN SelectSeq(rules, selected)

MaxClock == 3

R1 == <<82, 49>>
R2 == <<82, 50>>
QueryA == <<97>>
QueryB == <<98>>

\* the rules that callers upsert: R1, R1 padded and disabled, R2, a rule
\* under the id of the default rule, and a rule without a category
GovRules ==
    LET rule(id, category, severity, querySQL, enabled) ==
            [ID |-> id, Category |-> category, Severity |-> severity,
             Description |-> <<100>>, QuerySQL |-> querySQL, Enabled |-> enabled]
    IN << rule(R1, <<99>>, SeverityBytes.error, QueryA, TRUE),
          rule(<<32>> \o R1 \o <<10>>, <<99, 32>>, <<32, 73, 110, 102, 111>>, QueryB \o <<10>>, FALSE),
          rule(R2, <<99>>, SeverityBytes.critical, QueryB, TRUE),
          rule(defaultRules[1].ID, <<99>>, SeverityBytes.info, QueryA, TRUE),
          rule(R2, <<32>>, SeverityBytes.error, QueryA, TRUE) >>

\* the lists of them that one call of UpsertRules gets
GovRuleLists ==
    LET pick(list) == [k \in 1..Len(list) |-> GovRules[list[k]]]
    IN {pick(list) : list \in {<<>>, <<1>>, <<2>>, <<3>>, <<4>>, <<5>>,
                               <<3, 1>>, <<1, 2>>, <<1, 5>>, <<4, 3>>}}

\* what the database can do with the query texts of these rules: for QueryA
\* and for QueryB one of "rows", "no rows", "fails" and "breaks", at most one
\* of the two going wrong
GovWorlds ==
    {world \in [a : {"rows", "fails"}, b : {"rows", "no rows", "fails", "breaks"}] :
        world.a = "rows" \/ world.b = "rows"}

\* the statement executions of UpsertRules(rules) that can fail: any one of
\* a list of several rules, or none
GovFaults(rules) == IF Len(rules) > 1 THEN 0..Len(rules) ELSE {0}

\* db.QueryContext(ctx, querySQL) and the reading of its rows: "fails" when
\* QueryContext returns an error, "breaks" when Columns, Scan or rows.Err
\* returns one, else "rows" with the columns and rows of the result
queryResult(world, querySQL) ==
    LET cols == <<"file_path", "line">>
        rowA == <<StringValue(<<97, 46, 103, 111>>), NumberValue("int64", 7)>>
        rowB == <<StringValue(<<98, 46, 103, 111>>), Nil>>
        does == IF querySQL = QueryA THEN world.a
                ELSE IF querySQL = QueryB THEN world.b
                ELSE "rows"
    IN IF does \in {"fails", "breaks"}
       THEN [outcome |-> does, cols |-> <<>>, rows |-> <<>>]
       ELSE [outcome |-> "rows", cols |-> cols,
             rows |-> IF does = "no rows" THEN <<>>
                      ELSE IF querySQL = QueryA THEN <<rowA, rowB>>
                      ELSE IF querySQL = QueryB THEN <<rowB>>
                      ELSE <<rowA>>]

\* the Violations of the rows of a rule's result
rowViolations(rule, result) ==
    [k \in 1..Len(result.rows) |-> rowViolation(rule, result.cols, result.rows[k])]

\* the loop of Run that returns the violations collected so far with the error
RECURSIVE runRulesKeepingCollected(_, _, _, _)
runRulesKeepingCollected(selected, world, out, executed) ==
    IF selected = <<>>
    THEN [violations |-> out, err |-> "", names |-> <<>>, executed |-> executed]
    ELSE LET rule == Head(selected)
             result == queryResult(world, rule.QuerySQL)
         IN IF ~rule.Enabled
            THEN runRulesKeepingCollected(Tail(selected), world, out, executed)
            ELSE IF result.outcome = "fails"
            THEN [violations |-> out, err |-> "rule", names |-> rule.ID,
                  executed |-> Append(executed, rule.ID)]
            ELSE IF result.outcome = "breaks"
            THEN [violations |-> out, err |-> "rows", names |-> <<>>,
                  executed |-> Append(executed, rule.ID)]
            ELSE runRulesKeepingCollected(Tail(selected), world,
                                          out \o rowViolations(rule, result),
                                          Append(executed, rule.ID))

\* the loop of Run over the selected rules, on a database that answers the
\* queries as world says. executed lists the rules whose query was sent;
\* names is the rule id that the error message carries
RECURSIVE runRules(_, _, _, _)
runRules(selected, world, out, executed) ==
    IF selected = <<>>
    THEN [violations |-> out, err |-> "", names |-> <<>>, executed |-> executed]
    ELSE LET rule == Head(selected)
             result == queryResult(world, rule.QuerySQL)
         IN IF ~rule.Enabled
            THEN runRules(Tail(selected), world, out, executed)
            ELSE IF result.outcome = "fails"
            THEN [violations |-> <<>>, err |-> "rule", names |-> rule.ID,
                  executed |-> Append(executed, rule.ID)]
            ELSE IF result.outcome = "breaks"
            THEN [violations |-> <<>>, err |-> "rows", names |-> <<>>,
                  executed |-> Append(executed, rule.ID)]
            ELSE runRules(Tail(selected), world, out \o rowViolations(rule, result),
                          Append(executed, rule.ID))

\* func (r *Runner) Run(ctx, opts RunOptions) ([]Violation, error)
RunnerRun(table, ids, now, world) ==
    LET listed == ListRules(table, now)
    IN IF listed.err # ""
       THEN [table |-> listed.table, violations |-> <<>>, err |-> listed.err,
             names |-> <<>>, executed |-> <<>>]
       ELSE [table |-> listed.table]
            @@ runRules(filterRules(listed.rules, ids), world, <<>>, <<>>)

GovInit ==
    /\ ruleTable = <<>>
    /\ clock = 0
    /\ govOut = <<>>
    /\ FpIdle
    /\ WalkIdle
    /\ PoolIdle
    /\ RunIdle
    /\ IdIdle
    /\ OptIdle
    /\ RuleIdle
    /\ SelIdle
    /\ RowIdle
    /\ ScanIdle
    /\ WrIdle
    /\ StoreIdle

\* the function called before this call, "" for the first call
Called == IF govOut = <<>> THEN "" ELSE govOut.fn

\* a caller calls UpsertRules(ctx, rules); the ExecContext of the rule at
\* failAt fails (0: none does)
UpsertRulesCall(rules, failAt) ==
    /\ clock < MaxClock
    /\ clock' = clock + 1
    /\ LET done == UpsertRules(ruleTable, rules, clock + 1, failAt)
       IN /\ ruleTable' = done.table
          /\ govOut' = [fn |-> "UpsertRules", after |-> Called, was |-> ruleTable,
                        err |-> done.err, arg |-> rules, failAt |-> failAt]
    /\ UNCHANGED <<fpVars, walkVars, poolVars, runVars, idVars, optVars, ruleVars, selVars, rowVars, scanVars, wrVars, storeVars>>

\* a caller calls EnsureDefaultRules(ctx)
EnsureDefaultRulesCall ==
    /\ clock < MaxClock
    /\ clock' = clock + 1
    /\ LET done == EnsureDefaultRules(ruleTable, clock + 1)
       IN /\ ruleTable' = done.table
          /\ govOut' = [fn |-> "EnsureDefaultRules", after |-> Called, was |-> ruleTable,
                        err |-> done.err]
    /\ UNCHANGED <<fpVars, walkVars, poolVars, runVars, idVars, optVars, ruleVars, selVars, rowVars, scanVars, wrVars, storeVars>>

\* a caller calls ListRules(ctx)
ListRulesCall ==
    /\ clock < MaxClock
    /\ clock' = clock + 1
    /\ LET done == ListRules(ruleTable, clock + 1)
       IN /\ ruleTable' = done.table
          /\ govOut' = [fn |-> "ListRules", after |-> Called, was |-> ruleTable,
                        err |-> done.err, rules |-> done.rules]
    /\ UNCHANGED <<fpVars, walkVars, poolVars, runVars, idVars, optVars, ruleVars, selVars, rowVars, scanVars, wrVars, storeVars>>

\* a caller calls Run(ctx, RunOptions{RuleIDs: ids}) on a database that
\* answers the queries as world says
RunnerRunCall(ids, world) ==
    /\ clock < MaxClock
    /\ clock' = clock + 1
    /\ LET done == RunnerRun(ruleTable, ids, clock + 1, world)
       IN /\ ruleTable' = done.table
          /\ govOut' = [fn |-> "Run", after |-> Called, was |-> ruleTable,
                        ids |-> ids, world |-> world, err |-> done.err,
                        names |-> done.names, executed |-> done.executed,
                        violations |-> done.violations]
    /\ UNCHANGED <<fpVars, walkVars, poolVars, runVars, idVars, optVars, ruleVars, selVars, rowVars, scanVars, wrVars, storeVars>>

GovNext ==
    \/ \E rules \in GovRuleLists : \E failAt \in GovFaults(rules) : UpsertRulesCall(rules, failAt)
    \/ EnsureDefaultRulesCall
    \/ ListRulesCall
    \/ \E ids \in {<<>>, <<R1>>, <<R2, defaultRules[1].ID>>, <<R1 \o <<32>> >>,
                     <<R2, R1 \o <<32>>, R1>>} :
           \E world \in GovWorlds : RunnerRunCall(ids, world)

SpecGov == GovInit /\ [][GovNext]_vars

RunnerRan == govOut # <<>> /\ govOut.fn = "Run"

\* the stored rules that are enabled and, when ids are given, selected
DueRows ==
    {row \in Range(ruleTable) :
        row.enabled /\ (govOut.ids = <<>> \/ row.rule_id \in Range(govOut.ids))}

\* the rows that the query of a stored rule returns in the run
RowsOf(row) == queryResult(govOut.world, row.query_sql).rows

ViolationsOf(row) == {k \in 1..Len(govOut.violations) : govOut.violations[k].RuleID = row.rule_id}

\* C21: Run executes exactly the stored rules that are enabled and, when ids
\* are given, selected; a run that fails has executed some of them and no
\* other; every violation carries the rule_id, category and severity of its
\* rule; a disabled or unselected rule contributes no violation
RunExecutesEnabledSelected ==
    RunnerRan =>
        /\ Range(govOut.executed) \subseteq {row.rule_id : row \in DueRows}
        /\ \A k, m \in 1..Len(govOut.executed) : k # m => govOut.executed[k] # govOut.executed[m]
        /\ govOut.err = "" =>
              /\ Range(govOut.executed) = {row.rule_id : row \in DueRows}
              /\ \A row \in DueRows : Cardinality(ViolationsOf(row)) = Len(RowsOf(row))
        /\ \A k \in 1..Len(govOut.violations) :
              \E row \in DueRows :
                  /\ govOut.violations[k].RuleID = row.rule_id
                  /\ govOut.violations[k].Category = row.category
                  /\ govOut.violations[k].Severity = row.severity

\* C21 witness: with R1 and R2 stored and enabled and the default rule
\* stored disabled, a run for R1 only returns the violations of R1
RunExecutesEnabledSelectedWitness ==
    /\ RunnerRan
    /\ govOut.err = ""
    /\ govOut.ids = <<R1>>
    /\ \E row \in Range(ruleTable) : row.rule_id = R2 /\ row.enabled
    /\ \E row \in Range(ruleTable) : row.rule_id = defaultRules[1].ID /\ ~row.enabled
    /\ govOut.executed = <<R1>>
    /\ Len(govOut.violations) = 2

\* C22: when the SQL of an executed rule fails, Run returns an error naming
\* that rule's id and no violation at all, none of those collected from the
\* rules before it either
FailedRuleNamedNothingReturned ==
    RunnerRan =>
        /\ \A row \in Range(ruleTable) :
              (/\ row.rule_id \in Range(govOut.executed)
               /\ queryResult(govOut.world, row.query_sql).outcome = "fails")
              => (govOut.err # "" /\ govOut.names = row.rule_id /\ govOut.violations = <<>>)
        /\ govOut.err # "" => govOut.violations = <<>>

\* C22 witness: R1 returned rows, then the query of R2 failed
FailedRuleNamedNothingReturnedWitness ==
    /\ RunnerRan
    /\ govOut.executed = <<R1, R2>>
    /\ \E row \in Range(ruleTable) : row.rule_id = R1 /\ RowsOf(row) # <<>>
    /\ \E row \in Range(ruleTable) :
          row.rule_id = R2 /\ queryResult(govOut.world, row.query_sql).outcome = "fails"
    /\ govOut.names = R2
    /\ govOut.violations = <<>>

RulesListed == govOut # <<>> /\ govOut.fn = "ListRules"

\* C24: after any sequence of upserts ListRules returns every stored rule
\* exactly once, the defaults included, in ascending order of rule_id
ListedOnceAscending ==
    RulesListed =>
        /\ govOut.err = ""
        /\ \A k \in 1..(Len(govOut.rules) - 1) :
              StrLess(govOut.rules[k].ID, govOut.rules[k + 1].ID)
        /\ Range(govOut.rules) = {scanRule(row) : row \in Range(ruleTable)}
        /\ \A row \in Range(govOut.was) :
              \E k \in 1..Len(govOut.rules) : govOut.rules[k].ID = row.rule_id
        /\ \E k \in 1..Len(govOut.rules) : govOut.rules[k].ID = defaultRules[1].ID

\* C24 witness: R2 was stored before R1 and the default rule after both
ListedOnceAscendingWitness ==
    /\ RulesListed
    /\ Len(govOut.rules) = 3
    /\ ruleTable[1].rule_id = R2
    /\ ruleTable[3].rule_id = defaultRules[1].ID
    /\ govOut.rules[1].ID = defaultRules[1].ID

DefaultsEnsured == govOut # <<>> /\ govOut.fn = "EnsureDefaultRules"

\* C25: EnsureDefaultRules is idempotent: called again it leaves the same
\* rules with the same field values, updated_unix apart, and it never leaves
\* two rules of one rule_id
EnsureDefaultsIdempotent ==
    DefaultsEnsured =>
        /\ govOut.err = ""
        /\ \A k, m \in 1..Len(ruleTable) : k # m => ruleTable[k].rule_id # ruleTable[m].rule_id
        /\ \E row \in Range(ruleTable) : scanRule(row) = trimRule(defaultRules[1])
        /\ govOut.after = "EnsureDefaultRules" =>
              /\ Len(ruleTable) = Len(govOut.was)
              /\ \A k \in 1..Len(ruleTable) : scanRule(ruleTable[k]) = scanRule(govOut.was[k])

\* C25 witness: the second of two calls in a row, with another rule stored,
\* rewrote the default rule at a later time
EnsureDefaultsIdempotentWitness ==
    /\ DefaultsEnsured
    /\ govOut.after = "EnsureDefaultRules"
    /\ Len(ruleTable) = 2
    /\ ruleTable[1].rule_id = R1
    /\ ruleTable[2].updated_unix > govOut.was[2].updated_unix

\* ---------------------------------------------------------------------------
\* Scanner: collectGoFiles walking a directory tree
\* ---------------------------------------------------------------------------

\* skipDirs: .git, vendor, node_modules, bin, .tmp, tmp, .cache
skipDirs ==
    { <<46, 103, 105, 116>>, <<118, 101, 110, 100, 111, 114>>,
      <<110, 111, 100, 101, 95, 109, 111, 100, 117, 108, 101, 115>>,
      <<98, 105, 110>>, <<46, 116, 109, 112>>, <<116, 109, 112>>,
      <<46, 99, 97, 99, 104, 101>> }

\* strings.HasSuffix
HasSuffix(s, suffix) ==
    Len(suffix) <= Len(s) /\ SubSeq(s, Len(s) - Len(suffix) + 1, Len(s)) = suffix

\* d.Name(): the last element of the entry's path
Base(path) == LET elems == Elements(path) IN elems[Len(elems)]

\* a tree maps the path of each of its files to the file's size and
\* modification time; its directories are the proper prefixes of these paths
IsDirIn(tree, path) == \E f \in DOMAIN tree : HasPrefix(f, path \o <<47>>)

\* the names of the entries of a directory
entryNames(tree, dir) ==
    {Elements(SubSeq(f, Len(dir) + 2, Len(f)))[1] :
        f \in {g \in DOMAIN tree : HasPrefix(g, dir \o <<47>>)}}

\* the callback without the blocklist test
skipsDirNever(name) == FALSE

\* the callback: if _, ok := skipDirs[d.Name()]; ok { return filepath.SkipDir }
skipsDir(name) == name \in skipDirs

\* the callback: rel, err := filepath.Rel(repoRoot, path), then ToSlash
relPath(repoRoot, root, path) == Rel(repoRoot, path)

\* filepath.WalkDir from the entry at path with the callback of
\* collectGoFiles: the fileMeta appended, a directory's entries in the order
\* of their names
RECURSIVE walkDir(_, _, _, _)
RECURSIVE walkEntries(_, _, _, _, _)
walkDir(tree, repoRoot, root, path) ==
    IF path \in DOMAIN tree
    THEN IF HasSuffix(Base(path), <<46, 103, 111>>)
         THEN <<fileMeta(relPath(repoRoot, root, path), tree[path].Size, tree[path].ModUnixNano)>>
         ELSE <<>>
    ELSE IF skipsDir(Base(path))
         THEN <<>>
         ELSE walkEntries(tree, repoRoot, root, path, SortedPaths(entryNames(tree, path)))

walkEntries(tree, repoRoot, root, dir, names) ==
    IF names = <<>>
    THEN <<>>
    ELSE walkDir(tree, repoRoot, root, dir \o <<47>> \o Head(names))
         \o walkEntries(tree, repoRoot, root, dir, Tail(names))

\* the files left as the walk appended them
sortRelPathsNot(files) == files

\* sort.Slice(files, ... files[i].RelPath < files[j].RelPath)
RECURSIVE sortRelPaths(_)
sortRelPaths(files) ==
    IF files = <<>>
    THEN <<>>
    ELSE LET least == CHOOSE k \in 1..Len(files) :
                          /\ \A j \in 1..Len(files) : ~StrLess(files[j].RelPath, files[k].RelPath)
                          /\ \A j \in 1..(k - 1) : files[j].RelPath # files[k].RelPath
         IN <<files[least]>>
            \o sortRelPaths(SubSeq(files, 1, least - 1) \o SubSeq(files, least + 1, Len(files)))

\* collectGoFiles that walks the entries of the scan root without calling the
\* callback for the scan root itself
collectGoFilesUnderRootExempt(tree, repoRoot, subdir, maxFiles) ==
    LET root == IF subdir # <<>> THEN Join(repoRoot, subdir) ELSE repoRoot
        files == sortRelPaths(IF root \in DOMAIN tree
                              THEN walkDir(tree, repoRoot, root, root)
                              ELSE walkEntries(tree, repoRoot, root, root,
                                               SortedPaths(entryNames(tree, root))))
    IN IF root # repoRoot /\ root \notin DOMAIN tree /\ ~IsDirIn(tree, root)
       THEN [err |-> "walk repo", files |-> <<>>]
       ELSE [err |-> "",
             files |-> IF maxFiles > 0 /\ Len(files) > maxFiles
                       THEN SubSeq(files, 1, maxFiles) ELSE files]

\* func collectGoFiles(repoRoot, subdir string, maxFiles int) on a tree:
\* the walk from the scan root (an error when the subdir names no entry of
\* the repo), the sort and the cap
collectGoFilesUnder(tree, repoRoot, subdir, maxFiles) ==
    LET root == IF subdir # <<>> THEN Join(repoRoot, subdir) ELSE repoRoot
        files == sortRelPaths(walkDir(tree, repoRoot, root, root))
    IN IF root # repoRoot /\ root \notin DOMAIN tree /\ ~IsDirIn(tree, root)
       THEN [err |-> "walk repo", files |-> <<>>]
       ELSE [err |-> "",
             files |-> IF maxFiles > 0 /\ Len(files) > maxFiles
                       THEN SubSeq(files, 1, maxFiles) ELSE files]

MaxFilesCap == 2

\* the files a working copy can hold, by their paths from the repo root:
\* a.go, a/b.go, a/c.go, a/tmp/t.go, vendor/v.go, vendor/pkg/p.go, a/n.txt
\* and tmp.go/x.go
ScanPaths ==
    { <<97, 46, 103, 111>>,
      <<97, 47, 98, 46, 103, 111>>,
      <<97, 47, 99, 46, 103, 111>>,
      <<97, 47, 116, 109, 112, 47, 116, 46, 103, 111>>,
      <<118, 101, 110, 100, 111, 114, 47, 118, 46, 103, 111>>,
      <<118, 101, 110, 100, 111, 114, 47, 112, 107, 103, 47, 112, 46, 103, 111>>,
      <<97, 47, 110, 46, 116, 120, 116>>,
      <<116, 109, 112, 46, 103, 111, 47, 120, 46, 103, 111>> }

\* the tree at repoRoot that holds the files of these paths
ScanTree(repoRoot, paths) ==
    [f \in {repoRoot \o <<47>> \o p : p \in paths} |->
        [Size |-> Len(f), ModUnixNano |-> 1]]

\* a repo at /r scanned whole or under a, vendor, vendor/pkg, a.go or x with
\* every cap, and a repo at /tmp scanned whole
ScanInit ==
    /\ scanIn \in
          [repoRoot : {RepoRoot},
           paths : SUBSET ScanPaths,
           subdir : {<<>>, <<97>>, <<118, 101, 110, 100, 111, 114>>,
                     <<118, 101, 110, 100, 111, 114, 47, 112, 107, 103>>,
                     <<97, 46, 103, 111>>, <<120>>},
           maxFiles : 0..MaxFilesCap]
          \cup [repoRoot : {<<47, 116, 109, 112>>}, paths : SUBSET ScanPaths,
                subdir : {<<>>}, maxFiles : {0}]
    /\ scanOut = <<>>
    /\ FpIdle
    /\ WalkIdle
    /\ PoolIdle
    /\ RunIdle
    /\ IdIdle
    /\ OptIdle
    /\ RuleIdle
    /\ SelIdle
    /\ RowIdle
    /\ GovIdle
    /\ WrIdle
    /\ StoreIdle

\* Run calls collectGoFiles(repoRoot, opts.Subdir, opts.MaxFiles)
ScanCollect ==
    /\ scanOut = <<>>
    /\ scanOut' = collectGoFilesUnder(ScanTree(scanIn.repoRoot, scanIn.paths),
                                      scanIn.repoRoot, scanIn.subdir, scanIn.maxFiles)
    /\ UNCHANGED <<scanIn, fpVars, walkVars, poolVars, runVars, idVars, optVars, ruleVars, selVars, rowVars, govVars, wrVars, storeVars>>

\* Run, from the return of collectGoFiles to the branch on mode and rebuild,
\* called with mode "build", reuse and keep_output_files on the DB file
\* found: Run returns the error of the scan, returns "no .go files found",
\* or goes on to parseFiles and writeDatabase
runAfterScan(scan, found) ==
    IF scan.err # ""
    THEN [returns |-> TRUE, err |-> scan.err, parsed |-> FALSE, wrote |-> FALSE, db |-> found]
    ELSE LET decided == runDecide([metas |-> scan.files,
                                   fingerprint |-> sourceFingerprint(scan.files)],
                                  found, Options("build", TRUE, FALSE, TRUE), FALSE)
         IN  IF decided.returns
             THEN [returns |-> TRUE, err |-> decided.rec.err, parsed |-> decided.rec.parsed,
                   wrote |-> decided.rec.wrote, db |-> decided.rec.db]
             ELSE [returns |-> FALSE, err |-> "", parsed |-> TRUE, wrote |-> TRUE,
                   db |-> found]

\* Run goes on after collectGoFiles, with the DB file found at the path
ScanReturn(found) ==
    /\ scanOut # <<>>
    /\ "run" \notin DOMAIN scanOut
    /\ scanOut' = [err |-> scanOut.err, files |-> scanOut.files,
                   run |-> runAfterScan(scanOut, found)]
    /\ UNCHANGED <<scanIn, fpVars, walkVars, poolVars, runVars, idVars, optVars, ruleVars, selVars, rowVars, govVars, wrVars, storeVars>>

ScanNext ==
    \/ ScanCollect
    \/ \E found \in {NoDB, LegacyDB} : ScanReturn(found)

SpecScan == ScanInit /\ [][ScanNext]_vars

Scanned == scanOut # <<>> /\ scanOut.err = ""

\* the names on the way from the repo root to the scan root
ScanRootNames == IF scanIn.subdir = <<>> THEN <<>> ELSE Split(scanIn.subdir, 47)

\* the scan root: the repo root, or the subdir joined to it
ScanRoot ==
    IF scanIn.subdir # <<>> THEN Join(scanIn.repoRoot, scanIn.subdir) ELSE scanIn.repoRoot

\* the file of this path is at or under the scan root, its name ends in .go
\* and no directory on the way to it, from the scan root itself downwards,
\* has a blocklisted name
Visible(p) ==
    LET names == Split(p, 47)
        depth == Len(ScanRootNames)
        name == names[Len(names)]
    IN /\ Len(names) >= depth
       /\ SubSeq(names, 1, depth) = ScanRootNames
       /\ Len(name) >= 3
       /\ SubSeq(name, Len(name) - 2, Len(name)) = <<46, 103, 111>>
       /\ \A k \in (depth + 1)..(Len(names) - 1) : names[k] \notin skipDirs
       /\ Len(names) > depth => Base(ScanRoot) \notin skipDirs

ScannedPaths == {scanOut.files[k].RelPath : k \in 1..Len(scanOut.files)}

\* C29: the scanner's output is in strictly ascending order of relative path,
\* so no path is repeated; with a cap k > 0 it is the first k entries of the
\* output without a cap, and the whole of it with k = 0; the paths are
\* relative to the repo root, also under a subdir
ScanSortedCappedFromRepoRoot ==
    Scanned =>
        LET full == collectGoFilesUnder(ScanTree(scanIn.repoRoot, scanIn.paths),
                                        scanIn.repoRoot, scanIn.subdir, 0).files
            kept == IF scanIn.maxFiles = 0 \/ Len(full) < scanIn.maxFiles
                    THEN Len(full) ELSE scanIn.maxFiles
        IN /\ \A k \in 1..(Len(scanOut.files) - 1) :
                 StrLess(scanOut.files[k].RelPath, scanOut.files[k + 1].RelPath)
           /\ \A k \in 1..(Len(full) - 1) : StrLess(full[k].RelPath, full[k + 1].RelPath)
           /\ Len(scanOut.files) = kept
           /\ \A k \in 1..kept : scanOut.files[k] = full[k]
           /\ \A k \in 1..Len(scanOut.files) :
                 /\ scanOut.files[k].RelPath \in scanIn.paths
                 /\ scanIn.subdir # <<>> =>
                       \/ scanOut.files[k].RelPath = scanIn.subdir
                       \/ HasPrefix(scanOut.files[k].RelPath, scanIn.subdir \o <<47>>)
                 /\ scanOut.files[k].Size = Len(scanIn.repoRoot) + 1 + Len(scanOut.files[k].RelPath)

\* C29 witness: under the subdir a with a cap of one, a/b.go is kept and
\* a/c.go is cut
ScanSortedCappedFromRepoRootWitness ==
    /\ Scanned
    /\ scanIn.subdir = <<97>>
    /\ scanIn.maxFiles = 1
    /\ <<97, 47, 99, 46, 103, 111>> \in scanIn.paths
    /\ ScannedPaths = {<<97, 47, 98, 46, 103, 111>>}

\* C30: the scanner emits exactly the files under the scan root whose name
\* ends in .go and that are reachable without descending into a directory
\* named .git, vendor, node_modules, bin, .tmp, tmp or .cache, the scan root
\* being the first directory descended into (the first k of them under a cap
\* k); nothing below such a directory is emitted
ScanEmitsVisibleFiles ==
    Scanned =>
        /\ ScannedPaths \subseteq {p \in scanIn.paths : Visible(p)}
        /\ (scanIn.maxFiles = 0 \/ Len(scanOut.files) < scanIn.maxFiles) =>
              ScannedPaths = {p \in scanIn.paths : Visible(p)}

\* C30 witness: from the repo root, a.go and tmp.go/x.go are emitted;
\* a/tmp/t.go, vendor/v.go and a/n.txt are there and are not
ScanEmitsVisibleFilesWitness ==
    /\ Scanned
    /\ scanIn.repoRoot = RepoRoot
    /\ scanIn.subdir = <<>>
    /\ { <<97, 47, 116, 109, 112, 47, 116, 46, 103, 111>>,
         <<118, 101, 110, 100, 111, 114, 47, 118, 46, 103, 111>>,
         <<97, 47, 110, 46, 116, 120, 116>> } \subseteq scanIn.paths
    /\ ScannedPaths = { <<97, 46, 103, 111>>,
                        <<116, 109, 112, 46, 103, 111, 47, 120, 46, 103, 111>> }

\* ---------------------------------------------------------------------------
\* Two invocations of Run on one DB path
\* ---------------------------------------------------------------------------

Invocations == {1, 2}

\* both invocations rebuild; each keeps its output files or not; a DB file
\* of an earlier run (file 1) is at the path or not
WrInit ==
    /\ wrProc \in [Invocations -> [pc : {"start"}, keep : BOOLEAN, node : {0}]]
    /\ wrFile \in [node : {0, 1}, made : {1}]
    /\ wrRemovedOpen = FALSE
    /\ FpIdle
    /\ WalkIdle
    /\ PoolIdle
    /\ RunIdle
    /\ IdIdle
    /\ OptIdle
    /\ RuleIdle
    /\ SelIdle
    /\ RowIdle
    /\ GovIdle
    /\ ScanIdle
    /\ StoreIdle

\* the file at the path is open in another invocation
OpenElsewhere(i) ==
    wrFile.node # 0 /\ \E j \in Invocations \ {i} : wrProc[j].node = wrFile.node

\* writeDatabase: cleanupDuckDB(path), the os.Remove of the DB file
WriterCleanup(i) ==
    /\ wrProc[i].pc = "start"
    /\ wrProc' = [wrProc EXCEPT ![i].pc = "cleaned"]
    /\ wrFile' = [wrFile EXCEPT !.node = 0]
    /\ wrRemovedOpen' = (wrRemovedOpen \/ OpenElsewhere(i))
    /\ UNCHANGED <<fpVars, walkVars, poolVars, runVars, idVars, optVars, ruleVars, selVars, rowVars, govVars, scanVars, storeVars>>

\* writeDatabase: sql.Open and db.Conn: the engine makes the file when there
\* is none and takes its lock; the file another invocation has locked cannot
\* be opened
WriterOpen(i) ==
    /\ wrProc[i].pc = "cleaned"
    /\ IF wrFile.node = 0
       THEN /\ wrFile' = [node |-> wrFile.made + 1, made |-> wrFile.made + 1]
            /\ wrProc' = [wrProc EXCEPT ![i].pc = "open", ![i].node = wrFile.made + 1]
       ELSE IF OpenElsewhere(i)
       THEN /\ wrProc' = [wrProc EXCEPT ![i].pc = "failed"]
            /\ UNCHANGED wrFile
       ELSE /\ wrProc' = [wrProc EXCEPT ![i].pc = "open", ![i].node = wrFile.node]
            /\ UNCHANGED wrFile
    /\ UNCHANGED <<wrRemovedOpen, fpVars, walkVars, poolVars, runVars, idVars, optVars, ruleVars, selVars, rowVars, govVars, scanVars, storeVars>>

\* writeDatabase: from createSchema to COMMIT
WriterCommit(i) ==
    /\ wrProc[i].pc = "open"
    /\ wrProc' = [wrProc EXCEPT ![i].pc = "committed"]
    /\ UNCHANGED <<wrFile, wrRemovedOpen, fpVars, walkVars, poolVars, runVars, idVars, optVars, ruleVars, selVars, rowVars, govVars, scanVars, storeVars>>

\* writeDatabase returns: the deferred conn.Close and db.Close
WriterClose(i) ==
    /\ wrProc[i].pc = "committed"
    /\ wrProc' = [wrProc EXCEPT ![i].pc = "closed", ![i].node = 0]
    /\ UNCHANGED <<wrFile, wrRemovedOpen, fpVars, walkVars, poolVars, runVars, idVars, optVars, ruleVars, selVars, rowVars, govVars, scanVars, storeVars>>

\* Run after writeDatabase: if !opts.KeepOutputFiles { cleanupDuckDB(dbPath) }
WriterFinish(i) ==
    /\ wrProc[i].pc = "closed"
    /\ wrProc' = [wrProc EXCEPT ![i].pc = "done"]
    /\ IF wrProc[i].keep
       THEN UNCHANGED <<wrFile, wrRemovedOpen>>
       ELSE /\ wrFile' = [wrFile EXCEPT !.node = 0]
            /\ wrRemovedOpen' = (wrRemovedOpen \/ OpenElsewhere(i))
    /\ UNCHANGED <<fpVars, walkVars, poolVars, runVars, idVars, optVars, ruleVars, selVars, rowVars, govVars, scanVars, storeVars>>

WrNext ==
    \E i \in Invocations :
        \/ WriterCleanup(i)
        \/ WriterOpen(i)
        \/ WriterCommit(i)
        \/ WriterClose(i)
        \/ WriterFinish(i)

SpecWriters == WrInit /\ [][WrNext]_vars

\* the write phase: from the deletion of the stale file to COMMIT
InWritePhase(i) == wrProc # <<>> /\ wrProc[i].pc \in {"cleaned", "open"}

\* C28: one writer per DB path is enforced: of two invocations of Run on the
\* same DB path at most one is in its write phase at any time, and none
\* removes or overwrites a DB file that the other has open
OneWriterPerPath ==
    /\ ~(InWritePhase(1) /\ InWritePhase(2))
    /\ ~wrRemovedOpen

(***************************************************************************)
(* run_meta and the rows it stands for                                     *)
(***************************************************************************)

\* the working copies the calls of Run can find: the edited file saved again
\* any number of times, each file readable or not
RunDisks ==
    {[p \in AllPaths |->
        IF p \in RunPaths
        THEN diskFile(RunSizeOf(p), IF p \in EditedPaths THEN m ELSE 1, r[p], RunSrcOf(p))
        ELSE NoFile] : m \in 1..MaxModTime, r \in [RunPaths -> BOOLEAN]}

\* for each of these working copies, the fingerprint of its FileMeta list and
\* the rows parseFiles produces from it
FingerprintedRows ==
    {LET metas == collectGoFiles(fs, 0)
         parse == parseFiles(fs, metas)
     IN  [fingerprint |-> sourceFingerprint(metas), files |-> parse.files,
          nodes |-> parse.nodes] : fs \in RunDisks}

\* C31 as stated: whenever run_meta of the DB file holds a fingerprint F, the
\* files and nodes tables hold exactly the rows produced from a FileMeta list
\* whose fingerprint is F; run_meta is never committed with rows missing
MetaNamesStoredRows ==
    (db.Exists /\ "run_meta" \in db.Tables /\ db.source_fingerprint # EmptyString) =>
        \E built \in FingerprintedRows :
            /\ built.fingerprint = db.source_fingerprint
            /\ built.files = db.files
            /\ built.nodes = db.nodes

(***************************************************************************)
(* Parent links of the linearizer                                          *)
(***************************************************************************)

\* the parent of every node of an AST, the nodes numbered from ord in
\* depth-first pre-order and the root's parent given (0: none)
RECURSIVE ParentsOfTree(_, _, _)
RECURSIVE ParentsOfForest(_, _, _)
ParentsOfTree(n, ord, parentOrd) ==
    <<parentOrd>> \o ParentsOfForest(n.Children, ord + 1, ord)
ParentsOfForest(cs, ord, parentOrd) ==
    IF cs = <<>> THEN <<>>
    ELSE ParentsOfTree(Head(cs), ord, parentOrd)
             \o ParentsOfForest(Tail(cs), ord + NodeCount(Head(cs)), parentOrd)

\* C33: the first row is the file root, with ordinal 1 and no parent; it is
\* the only row without a parent; every other row's parent_ordinal is the
\* ordinal of the node's parent in the AST; the stack is empty when the walk
\* ends
ParentLinksFollowAST ==
    LET parents == ParentsOfTree(walkFile, 1, 0)
    IN  /\ \A i \in 1..Len(walk.rows) :
              /\ walk.rows[i].HasParent <=> i # 1
              /\ walk.rows[i].ParentOrdinal = parents[i]
              /\ walk.rows[i].HasParent => walk.rows[i].ParentOrdinal >= 1
        /\ Len(walk.rows) >= 1 =>
              /\ walk.rows[1].Ordinal = 1
              /\ walk.rows[1].Kind = walkFile.Kind
        /\ WalkDone => walk.stack = <<>>

\* C33 witness: a finished walk in which a node follows the subtree of an
\* earlier sibling, so that its parent is not the row before it
ParentLinksFollowASTWitness ==
    /\ WalkDone
    /\ walk.stack = <<>>
    /\ \E i \in 3..Len(walk.rows) :
          /\ walk.rows[i].HasParent
          /\ walk.rows[i].ParentOrdinal = 2
          /\ walk.rows[i - 1].ParentOrdinal = i - 2
          /\ i - 2 > 2

(***************************************************************************)
(* Termination of the parser pool                                          *)
(***************************************************************************)

\* the pool under fair scheduling: as long as some goroutine of parseFiles
\* can take a step, a step is eventually taken
SpecPoolFair == PoolInit /\ [][PoolNext]_vars /\ WF_vars(PoolNext)

\* parseFiles has returned, the feeder and every worker goroutine have
\* exited, and jobs and out are closed and empty
PoolTerminated ==
    /\ poolRet.returned
    /\ poolFeeder.pc = "done"
    /\ \A i \in DOMAIN poolWorker : poolWorker[i].pc = "done"
    /\ poolChan.jobsClosed
    /\ poolChan.outClosed
    /\ poolChan.out = <<>>
    /\ poolChan.wg = 0

\* the collector received exactly one result for each scanned file
OneResultPerFile ==
    /\ Len(poolAcc.files) = Len(poolIn.metas)
    /\ \A k \in 1..Len(poolIn.metas) :
          Cardinality({j \in 1..Len(poolAcc.files) :
                          poolAcc.files[j].Path = poolIn.metas[k].RelPath}) = 1

\* C32: for every worker count W >= 1 and every non-empty list of files the
\* pool terminates under fair scheduling, with every goroutine exited and both
\* channels closed, having delivered exactly one result per file
PoolTerminatesWithOneResultPerFile ==
    <>[](PoolTerminated /\ OneResultPerFile)

\* C32 witness: the pool of two workers has terminated on three files, the
\* collector having received the results in an order other than the feeder's
PoolTerminatesWitness ==
    /\ PoolTerminated
    /\ OneResultPerFile
    /\ poolIn.workers = MaxWorkers
    /\ Len(poolIn.metas) = 3
    /\ poolAcc.files[1].Path = poolIn.metas[2].RelPath

(***************************************************************************)
(* The DB file a failed rebuild leaves                                     *)
(***************************************************************************)

\* the call the state shows called writeDatabase, which returned an error
\* (after cleanupDuckDB, its first statement)
RebuildFailed == last.ran /\ last.wrote /\ last.err # ""

\* what the next call of Run decides for the scan of the working copy and
\* the DB file of the state
NextDecision(scan, opts, statFails) == runDecide(scan, db, opts, statFails)

\* C35: after a rebuild that failed in writeDatabase, the next Run on the same
\* tree and DB path, whatever its options, does not return action = reuse:
\* it judges the leftover DB not reusable and rebuilds (or returns an error)
FailedRebuildNeverReused ==
    RebuildFailed =>
        \A scan \in {runScan(disk)} :
            \A opts \in RunOptions, statFails \in BOOLEAN :
                \A next \in {NextDecision(scan, opts, statFails)} :
                    /\ next.returns => next.rec.err # ""
                    /\ next.returns => next.rec.Sync.Action # "reuse"
                    /\ ~next.returns => next.rebuild

\* C35 witness: the COMMIT of a rebuild failed where the DB file found was
\* up to date for the working copy, and a file with empty tables is left
FailedRebuildNeverReusedWitness ==
    /\ RebuildFailed
    /\ failure = "commit"
    /\ before = CurrentDB
    /\ before.source_fingerprint = runScan(disk).fingerprint
    /\ db.Exists
    /\ db.files = <<>>
    /\ ~NextDecision(runScan(disk), Options("query", TRUE, FALSE, TRUE), FALSE).returns

(***************************************************************************)
(* What UpsertRules stores                                                 *)
(***************************************************************************)

\* the state shows a call of UpsertRules that returned nil
UpsertSucceeded == govOut # <<>> /\ govOut.fn = "UpsertRules" /\ govOut.err = ""

\* the rule ids of a list of rules, as UpsertRules stores them
UpsertedIds(rules) == {TrimSpace(rules[k].ID) : k \in 1..Len(rules)}

\* the last rule of a list under the id
LastWithId(rules, id) ==
    LET at == {k \in 1..Len(rules) : TrimSpace(rules[k].ID) = id}
    IN  rules[CHOOSE k \in at : \A j \in at : j <= k]

\* the rows of a table under the id
RowsWithId(table, id) == {k \in 1..Len(table) : table[k].rule_id = id}

\* the rows of a table under none of the ids
RowsOutside(table, ids) == {table[k] : k \in {j \in 1..Len(table) : table[j].rule_id \notin ids}}

\* C34: a successful UpsertRules(rules) leaves, for each rule id of the list,
\* exactly one row, equal to the trimmed and lowercased form of the last rule
\* of the list with that id, and leaves every row under another id as it was;
\* every stored row has a non-empty id, category, description and query_sql
\* and a severity of the accepted set
UpsertStoresLastTrimmed ==
    /\ UpsertSucceeded =>
          /\ \A id \in UpsertedIds(govOut.arg) :
                /\ Cardinality(RowsWithId(ruleTable, id)) = 1
                /\ \A k \in RowsWithId(ruleTable, id) :
                      /\ scanRule(ruleTable[k]) = trimRule(LastWithId(govOut.arg, id))
                      /\ ruleTable[k].updated_unix = clock
          /\ RowsOutside(ruleTable, UpsertedIds(govOut.arg))
                = RowsOutside(govOut.was, UpsertedIds(govOut.arg))
          /\ Len(ruleTable) = Len(govOut.was)
                + Cardinality({id \in UpsertedIds(govOut.arg) : RowsWithId(govOut.was, id) = {}})
    /\ \A k \in 1..Len(ruleTable) :
          /\ ruleTable[k].rule_id # <<>>
          /\ ruleTable[k].category # <<>>
          /\ ruleTable[k].description # <<>>
          /\ ruleTable[k].query_sql # <<>>
          /\ ruleTable[k].severity \in {SeverityBytes.critical, SeverityBytes.error,
                                        SeverityBytes.warning, SeverityBytes.info}

\* C34 witness: UpsertRules stored a list naming R1 twice, the second time
\* padded, disabled and with severity " Info", over a table that held R1 and
\* R2: R1's row is the second rule trimmed, R2's row is as it was
UpsertStoresLastTrimmedWitness ==
    /\ UpsertSucceeded
    /\ Len(govOut.arg) = 2
    /\ UpsertedIds(govOut.arg) = {R1}
    /\ govOut.arg[2].ID # R1
    /\ \E k \in 1..Len(ruleTable) :
          /\ ruleTable[k].rule_id = R1
          /\ ~ruleTable[k].enabled
          /\ ruleTable[k].severity = SeverityBytes.info
    /\ \E k \in 1..Len(govOut.was) : govOut.was[k].rule_id = R1 /\ govOut.was[k].enabled
    /\ \E k \in 1..Len(ruleTable) :
          /\ ruleTable[k].rule_id = R2
          /\ ruleTable[k].updated_unix < clock

(***************************************************************************)
(* What a failing UpsertRules leaves                                       *)
(***************************************************************************)

\* the state shows a call of UpsertRules that returned an error
UpsertFailed == govOut # <<>> /\ govOut.fn = "UpsertRules" /\ govOut.err # ""

\* the indices of the list at which the call can end: the rule is invalid
\* once trimmed, or its statement fails
EndingIndices(rules, failAt) ==
    {k \in 1..Len(rules) : ValidateRule(trimRule(rules[k])) # "" \/ k = failAt}

\* C38: UpsertRules is applied rule by rule without a transaction: when it
\* returns an error for the rule at index k (validation or statement
\* failure), the table is the one a successful UpsertRules of the rules
\* before k leaves, neither less nor more
FailedUpsertLeavesPrefix ==
    /\ UpsertFailed =>
          \E k \in EndingIndices(govOut.arg, govOut.failAt) :
              /\ \A j \in EndingIndices(govOut.arg, govOut.failAt) : k <= j
              /\ \A prefix \in {UpsertRules(govOut.was, SubSeq(govOut.arg, 1, k - 1), clock, 0)} :
                    /\ prefix.err = ""
                    /\ ruleTable = prefix.table
              /\ govOut.err = IF ValidateRule(trimRule(govOut.arg[k])) # ""
                              THEN ValidateRule(trimRule(govOut.arg[k]))
                              ELSE "upsert rule"
    /\ (govOut # <<>> /\ govOut.fn = "UpsertRules" /\ govOut.err = "") =>
          EndingIndices(govOut.arg, govOut.failAt) = {}

\* C38 witness: the statement of the second rule of a list failed; the first
\* rule, new to the table, is stored, the second is not
FailedUpsertLeavesPrefixWitness ==
    /\ UpsertFailed
    /\ govOut.failAt = 2
    /\ govOut.err = "upsert rule"
    /\ TrimSpace(govOut.arg[1].ID) # TrimSpace(govOut.arg[2].ID)
    /\ RowsWithId(govOut.was, TrimSpace(govOut.arg[1].ID)) = {}
    /\ RowsWithId(ruleTable, TrimSpace(govOut.arg[1].ID)) # {}
    /\ RowsWithId(ruleTable, TrimSpace(govOut.arg[2].ID)) = {}

(***************************************************************************)
(* The built-in rules under ListRules and Run                              *)
(***************************************************************************)

\* the state shows a call of ListRules or of Run
ListedOrRan == govOut # <<>> /\ govOut.fn \in {"ListRules", "Run"}

\* the table holds one row under the id of the built-in rule, with the
\* built-in definition as UpsertRules stores it
StoredAsBuiltIn(table, builtIn) ==
    /\ Cardinality(RowsWithId(table, builtIn.ID)) = 1
    /\ \A k \in RowsWithId(table, builtIn.ID) : scanRule(table[k]) = trimRule(builtIn)

\* C37: ListRules and Run upsert the built-in rules first, so after either
\* call the row of every built-in rule id is the built-in definition; a row
\* that a user stored under EXAMPLE_IMPORTS_INTERNAL_ONLY is overwritten and
\* disabled before Run selects, and Run never executes that rule
BuiltInsRestoredNeverRun ==
    ListedOrRan =>
        /\ govOut.err \notin {"rule id is required", "category is required",
                              "description is required", "query_sql is required",
                              "invalid severity", "upsert rule"}
        /\ \A k \in 1..Len(defaultRules) :
              /\ StoredAsBuiltIn(ruleTable, defaultRules[k])
              /\ ~defaultRules[k].Enabled
              /\ govOut.fn = "Run" =>
                    /\ defaultRules[k].ID \notin Range(govOut.executed)
                    /\ \A j \in 1..Len(govOut.violations) :
                          govOut.violations[j].RuleID # defaultRules[k].ID
        /\ govOut.fn = "ListRules" =>
              \A j \in 1..Len(govOut.rules) :
                  govOut.rules[j].ID = defaultRules[1].ID => ~govOut.rules[j].Enabled

\* C37 witness: a user had stored an enabled rule with another query under
\* the built-in id; Run, asked for that id and R2, restored the built-in row
\* and executed R2 only
BuiltInsRestoredNeverRunWitness ==
    /\ RunnerRan
    /\ govOut.err = ""
    /\ defaultRules[1].ID \in Range(govOut.ids)
    /\ \E k \in 1..Len(govOut.was) :
          /\ govOut.was[k].rule_id = defaultRules[1].ID
          /\ govOut.was[k].enabled
          /\ govOut.was[k].query_sql = QueryA
    /\ StoredAsBuiltIn(ruleTable, defaultRules[1])
    /\ govOut.executed = <<R2>>

(***************************************************************************)
(* The order of the violations Run returns                                 *)
(***************************************************************************)

\* the violations of the run under the rule id, in the order returned
ViolationsUnder(id) == SelectSeq(govOut.violations, LAMBDA v : v.RuleID = id)

\* some query that the run sent failed or could not be read
SomeQueryWentWrong ==
    \E row \in DueRows :
        queryResult(govOut.world, row.query_sql).outcome \in {"fails", "breaks"}

\* C39: the violations Run returns are grouped by rule in ascending order of
\* rule_id, whatever the order of the selected ids, each rule's violations
\* together and in the order of the rows of its query; a selected id that
\* matches no stored rule is ignored without error, and a selection of
\* unknown or disabled ids only gives an empty result
ViolationsAscendingByRule ==
    RunnerRan =>
        /\ \A k \in 1..(Len(govOut.violations) - 1) :
              \/ govOut.violations[k].RuleID = govOut.violations[k + 1].RuleID
              \/ StrLess(govOut.violations[k].RuleID, govOut.violations[k + 1].RuleID)
        /\ govOut.err = "" =>
              \A row \in DueRows :
                  ViolationsUnder(row.rule_id)
                      = rowViolations(scanRule(row), queryResult(govOut.world, row.query_sql))
        /\ govOut.err # "" => SomeQueryWentWrong
        /\ DueRows = {} =>
              /\ govOut.err = ""
              /\ govOut.violations = <<>>
              /\ govOut.executed = <<>>

\* C39 witness: asked for R2, an unknown id and R1 in this order, Run returned
\* the two violations of R1 and then the one of R2
ViolationsAscendingByRuleWitness ==
    /\ RunnerRan
    /\ govOut.err = ""
    /\ Len(govOut.ids) = 3
    /\ govOut.ids[1] = R2
    /\ govOut.ids[3] = R1
    /\ \A row \in Range(ruleTable) : row.rule_id # govOut.ids[2]
    /\ Len(govOut.violations) = 3
    /\ govOut.violations[1].RuleID = R1
    /\ govOut.violations[2].RuleID = R1
    /\ govOut.violations[1] # govOut.violations[2]
    /\ govOut.violations[3].RuleID = R2

(***************************************************************************)
(* A scan root with a blocklisted name                                     *)
(***************************************************************************)

\* the scan root is a directory whose base name is on the blocklist
ScanRootBlocklisted ==
    /\ scanIn # <<>>
    /\ Base(ScanRoot) \in skipDirs
    /\ \/ ScanRoot = scanIn.repoRoot
       \/ IsDirIn(ScanTree(scanIn.repoRoot, scanIn.paths), ScanRoot)

\* C40: the blocklist test is applied to the scan root itself: when the base
\* name of the scan root (the repo root, or the last component of subdir) is
\* blocklisted, the scanner emits no file and no error, and Run fails with
\* "no .go files found" without parsing or writing
BlocklistedRootScansNothing ==
    (ScanRootBlocklisted /\ scanOut # <<>>) =>
        /\ scanOut.err = ""
        /\ scanOut.files = <<>>
        /\ "run" \in DOMAIN scanOut =>
              /\ scanOut.run.returns
              /\ scanOut.run.err = "no .go files found"
              /\ ~scanOut.run.parsed
              /\ ~scanOut.run.wrote
              /\ scanOut.run.db \in {NoDB, LegacyDB}

\* C40 witness: Run on the subdir vendor of a repo that holds vendor/v.go and
\* a.go, with a DB file of an earlier build at the path: the error is
\* returned and the DB file is as it was
BlocklistedRootScansNothingWitness ==
    /\ ScanRootBlocklisted
    /\ scanIn.subdir = <<118, 101, 110, 100, 111, 114>>
    /\ <<118, 101, 110, 100, 111, 114, 47, 118, 46, 103, 111>> \in scanIn.paths
    /\ <<97, 46, 103, 111>> \in scanIn.paths
    /\ scanOut # <<>>
    /\ "run" \in DOMAIN scanOut
    /\ scanOut.run.err = "no .go files found"
    /\ scanOut.run.db = LegacyDB

(***************************************************************************)
(* The governance rules in the DB file that Run rebuilds                   *)
(***************************************************************************)

\* most calls in one behaviour of the specification of the rules in the file
MaxStoreCalls == 3

\* Runner.UpsertRules on the DB file at duckDBPath: sql.Open makes the file
\* when there is none, CREATE TABLE IF NOT EXISTS the table, and the rules
\* are upserted into its rows
upsertRulesInFile(file, rules, now) ==
    IF rules = <<>>
    THEN [db |-> file, err |-> ""]
    ELSE LET opened == [file EXCEPT !.Exists = TRUE,
                                    !.Tables = @ \cup {"governance_rules"}]
             done == UpsertRules(opened.governance_rules, rules, now, 0)
         IN  [db |-> [opened EXCEPT !.governance_rules = done.table], err |-> done.err]

\* the lists of rules upserted into the file: R1, or R2
StoreRuleLists == {<<GovRules[1]>>, <<GovRules[3]>>}

\* the options of the calls of Run on the file: build or query, reuse asked
\* for, the output files kept or not
StoreOptions == {Options(m, TRUE, FALSE, k) : m \in {"build", "query"}, k \in BOOLEAN}

\* the DB file is absent, or left by a kept build of the working copy
StoreInit ==
    /\ storeDB \in {NoDB, CurrentDB}
    /\ storeOut = <<>>
    /\ storeCalls = 0
    /\ FpIdle
    /\ WalkIdle
    /\ PoolIdle
    /\ RunIdle
    /\ IdIdle
    /\ OptIdle
    /\ RuleIdle
    /\ SelIdle
    /\ RowIdle
    /\ GovIdle
    /\ ScanIdle
    /\ WrIdle

\* a caller calls UpsertRules(ctx, rules) on the runner of the DB path
StoreUpsert(rules) ==
    /\ storeCalls < MaxStoreCalls
    /\ storeCalls' = storeCalls + 1
    /\ \E done \in {upsertRulesInFile(storeDB, rules, storeCalls + 1)} :
          /\ storeDB' = done.db
          /\ storeOut' = [fn |-> "UpsertRules", was |-> storeDB, err |-> done.err,
                          Action |-> ""]
    /\ UNCHANGED <<fpVars, walkVars, poolVars, runVars, idVars, optVars, ruleVars, selVars, rowVars, govVars, scanVars, wrVars>>

\* a caller calls Run(ctx, opts) on the unchanged working copy and the DB path
StoreRun(opts, fault) ==
    /\ storeCalls < MaxStoreCalls
    /\ storeCalls' = storeCalls + 1
    /\ \E rec \in {Run(RunDisk0, storeDB, opts, fault)} :
          /\ storeDB' = rec.db
          /\ storeOut' = [fn |-> "Run", was |-> storeDB, err |-> rec.err,
                          Action |-> rec.Sync.Action]
    /\ UNCHANGED <<fpVars, walkVars, poolVars, runVars, idVars, optVars, ruleVars, selVars, rowVars, govVars, scanVars, wrVars>>

StoreNext ==
    \/ \E rules \in StoreRuleLists : StoreUpsert(rules)
    \/ \E opts \in StoreOptions, fault \in {"none", "stat", "commit"} : StoreRun(opts, fault)

SpecStore == StoreInit /\ [][StoreNext]_vars

\* the state shows a call of Run that returned a result
StoreRan == storeOut # <<>> /\ storeOut.fn = "Run" /\ storeOut.err = ""

\* C36: every rebuild starts by deleting the DB file, so after a Run whose
\* action is rebuild the governance_rules table holds none of the rules
\* upserted before that run; rules stored through UpsertRules are still
\* there after a Run only when its action is reuse
RebuildDropsStoredRules ==
    StoreRan =>
        /\ storeOut.Action \in {"rebuild", "reuse"}
        /\ storeOut.Action = "rebuild" => storeDB.governance_rules = <<>>
        /\ storeDB.governance_rules # <<>> =>
              /\ storeOut.Action = "reuse"
              /\ storeDB.governance_rules = storeOut.was.governance_rules

\* C36 witness: R1 and R2 were stored in the file of a kept build; a
\* build-mode Run on the unchanged working copy rebuilt, and the file it left
\* has an empty governance_rules table
RebuildDropsStoredRulesWitness ==
    /\ StoreRan
    /\ storeOut.Action = "rebuild"
    /\ Len(storeOut.was.governance_rules) = 2
    /\ storeOut.was.source_fingerprint = storeDB.source_fingerprint
    /\ storeDB.Exists
    /\ "governance_rules" \in storeDB.Tables
    /\ storeDB.governance_rules = <<>>

\* rules stored in the file are there after a kept query-mode Run that reused
StoredRulesSurviveReuse ==
    /\ StoreRan
    /\ storeOut.Action = "reuse"
    /\ storeDB.governance_rules # <<>>

====
